---- MODULE Spec2Model ----
(***************************************************************************)
(* io-gate: a gateway between a serial transport carrying CAN-style frames *)
(* and an MQTT / Home Assistant collaborator.                              *)
(*                                                                         *)
(*   message.rs   the codec: Message <-> MessageRaw, 11-bit addressing     *)
(*   shutters.rs  the shutter command codec                                *)
(*   comm.rs      the serial reader and writer tasks and their channels    *)
(*   main.rs      the two router loops, the time task and the joint wait   *)
(*   homeassistant/connection.rs  the collaborator's two queues            *)
(*                                                                         *)
(* Bytes are naturals 0..255.  TLC's integers are 32-bit signed, so the    *)
(* u32 fields of the model stay below 2^31.                                *)
(***************************************************************************)
EXTENDS Integers, Sequences, FiniteSets, TLC

VARIABLES
    \* ---- codec harness: one input, pushed through the pure functions
    cStep,      \* which function was applied last
    cMsg,       \* the Message given to to_raw
    cAddr,      \* the addr given to to_raw
    cRaw,       \* a MessageRaw: to_raw's result, or the input of from_raw
    cDec,       \* from_raw's result
    cCan,       \* to_can_addr's result
    cSplit,     \* split_can_addr's result
    \* ---- shutter command harness
    shStep,     \* which function of shutters::Cmd was applied last
    shCmd,      \* the Cmd given to to_raw
    shRaw,      \* the 5 bytes: to_raw's result, or the input of from_raw
    shDec,      \* from_raw's result
    \* ---- main.rs: main
    mainPc,     \* "initial", "config", "subscribe", "run": the startup of
                \* main; "join" while main waits in try_join!; then "exited"
    mainResult, \* how main ended: "none" until then, "Ok", "Err", "panic"
    cfgLeft,    \* init_config: the devices of config.devices not yet visited
    stDev,      \* init_config: the device being announced, NoDevice if none
    stComps,    \* init_config: message.components not yet subscribed
    \* ---- comm.rs: reader
    rdPc,       \* "read", "send" (in channel.send), "err", "panic"
    buf,        \* the first MaxChunk bytes of reader's buf, reused across reads
    rdPending,  \* the record reader is sending
    inQ,        \* the ingress channel (in_tx -> in_rx)
    \* ---- main.rs: task_usb_to_mqtt (router-inbound)
    riPc,       \* "recv", "send" (in ha_sender.send), "done"
    riPending,  \* the Outgoing event being sent
    haOut,      \* HomeAssistant.outgoing, the queue to the collaborator
    hsPc,       \* homeassistant sender: "run", "panic"
    \* ---- homeassistant/connection.rs: receiver, and main.rs: task_mqtt_to_usb
    hrPc,       \* homeassistant receiver: "poll", "done"
    hrErrs,     \* ghost: how many times event_loop.poll() returned Err
    haIn,       \* HomeAssistant.incoming, the queue of collaborator commands
    roPc,       \* "recv", "send" (in comm_tx.send), "done"
    roPending,  \* the record router-outbound is sending
    \* ---- main.rs: the time task
    ttPc,       \* "sleep", "send", "wait", "done", "dropped" (with the runtime)
    ttPending,  \* the record the time task is sending
    ttNow,      \* the instant of the last tick
    \* ---- comm.rs: writer
    outQ,       \* the egress channel (out_tx -> out_rx): <<producer, record>>
    wrPc,       \* "recv", "write" (in port.write), "err", "ok", "dropped"
    wrBuf,      \* msg_buf, the frame handed to port.write
    \* ---- the environment's budgets
    readsLeft,  \* reads the transport still answers
    cmdsLeft,   \* commands the collaborator still publishes
    ticksLeft,  \* times the 60 s sleep still elapses
    \* ---- history, read by the properties only
    fwd,        \* records the ingress channel accepted from reader, in order
    inRecv,     \* records router-inbound received, in order
    outAcc,     \* <<producer, record>> the egress channel accepted, in order
    wrRecv,     \* <<producer, record>> writer received, in order
    written,    \* frames port.write accepted, in order
    rdLog,      \* what each read so far made of its chunk, in order
    lastChunk,  \* the chunk the last read returned, <<>> when it returned none
    gBuf,       \* buf as it would be had no rejected chunk ever been read
    gOut,       \* what a reader holding gBuf makes of the last accepted chunk
    resumed,    \* producers whose suspended send has completed
    roLog,      \* commands task_mqtt_to_usb received, in order
    evLog,      \* events HomeAssistant.outgoing accepted, in order
    rdResumed   \* reader's suspended send has completed

shutterVars == <<shStep, shCmd, shRaw, shDec>>

codecVars == <<cStep, cMsg, cAddr, cRaw, cDec, cCan, cSplit, shutterVars>>

readerVars == <<rdPc, buf, rdPending, readsLeft, rdLog, lastChunk, gBuf, gOut, rdResumed>>

ingressVars == <<inQ, riPc, riPending, haOut, hsPc, fwd, inRecv, evLog>>

egressVars ==
    <<haIn, roPc, roPending, ttPc, ttPending, ttNow, outQ, wrPc, wrBuf,
      cmdsLeft, ticksLeft, outAcc, wrRecv, written, resumed, roLog, hrPc, hrErrs>>

mainVars == <<mainPc, mainResult, cfgLeft, stDev, stComps>>

pipelineVars == <<mainVars, readerVars, ingressVars, egressVars>>

vars == <<codecVars, pipelineVars>>

-----------------------------------------------------------------------------
(* message.rs: constants                                                   *)

BROADCAST_ADDRESS == 63

ERROR == 2
OUTPUT_CHANGED == 4
INPUT_CHANGED == 5
SET_OUTPUT == 8
TRIGGER_INPUT == 9
CALL_PROC == 10
CALL_SHUTTER == 11
REQUEST_STATUS == 13
STATUS_IO == 14
STATUS == 16
TIME_ANNOUNCEMENT == 17
INFO == 18
PONG == 29
PING == 30

\* Option::None of from_raw and of the from_u8 lookups.
NoneMsg == [kind |-> "None"]

-----------------------------------------------------------------------------
(* Little-endian integers and the 8-byte payload array                     *)

\* byte i (0 = lowest) of v: v.to_le_bytes()[i]
to_le_bytes_low_only(v, i) == IF i = 0 THEN v % 256 ELSE 0

to_le_bytes(v, i) == (v \div (256 ^ i)) % 256

\* u16::from_le_bytes([b0, b1])
u16_from_le_bytes(b0, b1) == b0 + 256 * b1

\* u32::from_le_bytes([b0, b1, b2, b3])
u32_from_le_bytes(b0, b1, b2, b3) == b0 + 256 * b1 + 65536 * b2 + 16777216 * b3

\* data: [u8; 8] holding the bytes of s, zero after them
Data8(s) == [i \in 1..8 |-> IF i <= Len(s) THEN s[i] ELSE 0]

\* MessageRaw::default() with the given addr
MessageRaw(addr, msg_type, length, bytes) ==
    [addr |-> addr, msg_type |-> msg_type, length |-> length, data |-> Data8(bytes)]

-----------------------------------------------------------------------------
(* message.rs args: the enumerations and their byte codes                  *)

OutputChangeRequest_to_bytes(s) ==
    CASE s = "Off" -> 0 [] s = "On" -> 1 [] s = "Toggle" -> 2

OutputChangeRequest_from_u8_saturating(b) ==
    CASE b = 0 -> "Off" [] b = 1 -> "On" [] OTHER -> "Toggle"

OutputChangeRequest_from_u8(b) ==
    CASE b = 0 -> "Off" [] b = 1 -> "On" [] b = 2 -> "Toggle" [] OTHER -> "None"

OutputChangeRequest_from_bool_toggle(on) == IF on THEN "Toggle" ELSE "Off"

OutputChangeRequest_from_bool(on) == IF on THEN "On" ELSE "Off"

OutputChangeRequest_try_to_bool(s) ==
    CASE s = "Off" -> "false" [] s = "On" -> "true" [] OTHER -> "None"

IOState_to_bytes(s) ==
    CASE s = "Off" -> 0 [] s = "On" -> 1 [] s = "Error" -> 2 [] s = "Unknown" -> 3

IOState_from_u8(b) ==
    CASE b = 0 -> "Off" [] b = 1 -> "On" [] b = 2 -> "Error" [] b = 3 -> "Unknown"
      [] OTHER -> "None"

Trigger_to_bytes(t) ==
    CASE t = "ShortClick" -> 0 [] t = "LongClick" -> 1 [] t = "Activated" -> 2
      [] t = "Deactivated" -> 3 [] t = "LongActivated" -> 4 [] t = "LongDeactivated" -> 5

Trigger_from_u8(b) ==
    CASE b = 0 -> "ShortClick" [] b = 1 -> "LongClick" [] b = 2 -> "Activated"
      [] b = 3 -> "Deactivated" [] b = 4 -> "LongActivated" [] b = 5 -> "LongDeactivated"
      [] OTHER -> "None"

InfoCode_Started == 10

-----------------------------------------------------------------------------
(* shutters.rs: Cmd::to_raw writes 5 bytes                                 *)

Cmd_to_raw(cmd) ==
    CASE cmd.c = "Go"          -> <<1, cmd.a, cmd.b, 0, 0>>
      [] cmd.c = "Open"        -> <<2, 0, 0, 0, 0>>
      [] cmd.c = "Close"       -> <<3, 0, 0, 0, 0>>
      [] cmd.c = "Tilt"        -> <<4, cmd.a, 0, 0, 0>>
      [] cmd.c = "TiltClose"   -> <<5, 0, 0, 0, 0>>
      [] cmd.c = "TiltOpen"    -> <<6, 0, 0, 0, 0>>
      [] cmd.c = "TiltHalf"    -> <<7, 0, 0, 0, 0>>
      [] cmd.c = "TiltReverse" -> <<8, 0, 0, 0, 0>>
      [] cmd.c = "SetIO"       -> <<16, cmd.a, cmd.b, 0, 0>>

NoCmd == [c |-> "None"]

\* Cmd::from_raw(&[u8; 5]); TargetPosition::new keeps both bytes as given
Cmd_from_raw(raw) ==
    CASE raw[1] = 1  -> [c |-> "Go", a |-> raw[2], b |-> raw[3]]
      [] raw[1] = 2  -> [c |-> "Open"]
      [] raw[1] = 3  -> [c |-> "Close"]
      [] raw[1] = 4  -> [c |-> "Tilt", a |-> raw[2]]
      [] raw[1] = 5  -> [c |-> "Close"]
      [] raw[1] = 6  -> [c |-> "TiltOpen"]
      [] raw[1] = 7  -> [c |-> "TiltHalf"]
      [] raw[1] = 8  -> [c |-> "TiltReverse"]
      [] raw[1] = 16 -> [c |-> "SetIO", a |-> raw[2], b |-> raw[3]]
      [] OTHER       -> NoCmd

-----------------------------------------------------------------------------
(* message.rs: MessageRaw                                                  *)

from_bytes_masking(addr, msg_type, data) ==
    MessageRaw(addr % 64, msg_type % 32, Len(data) % 256, data)

\* MessageRaw::from_bytes(addr, msg_type, data): length = data.len() as u8
from_bytes(addr, msg_type, data) == MessageRaw(addr, msg_type, Len(data) % 256, data)

\* ((msg_type & 0x1F) << 6) | (addr & 0x3F)
to_can_addr(raw) == ((raw.msg_type % 32) * 64) + (raw.addr % 64)

split_can_addr_shift5(can_addr) == <<(can_addr \div 32) % 32, can_addr % 64>>

\* (msg_type, device_addr), in that order
split_can_addr(can_addr) == <<(can_addr \div 64) % 32, can_addr % 64>>

\* MessageRaw::from_can
from_can(can_addr, data) ==
    LET p == split_can_addr(can_addr)
    IN  MessageRaw(p[2], p[1], Len(data) % 256, data)

addr_type(raw) == <<raw.addr, raw.msg_type>>

data_as_slice(raw) == [i \in 1..raw.length |-> raw.data[i]]

-----------------------------------------------------------------------------
(* message.rs: Message::to_raw                                             *)

to_raw(m, addr) ==
    CASE m.kind = "Error" ->
           MessageRaw(addr, ERROR, 4, [i \in 1..4 |-> to_le_bytes(m.code, i - 1)])
      [] m.kind = "Info" ->
           MessageRaw(addr, INFO, 6,
               <<to_le_bytes(m.code, 0), to_le_bytes(m.code, 1),
                 to_le_bytes(m.arg, 0), to_le_bytes(m.arg, 1),
                 to_le_bytes(m.arg, 2), to_le_bytes(m.arg, 3)>>)
      [] m.kind = "SetOutput" ->
           MessageRaw(addr, SET_OUTPUT, 2,
               <<m.output, OutputChangeRequest_to_bytes(m.state)>>)
      [] m.kind = "OutputChanged" ->
           MessageRaw(addr, OUTPUT_CHANGED, 2,
               <<m.output, OutputChangeRequest_to_bytes(m.state)>>)
      [] m.kind = "StatusIO" ->
           MessageRaw(addr, STATUS_IO, 3,
               <<m.io.idx, IF m.io.t = "Input" THEN 0 ELSE 1, IOState_to_bytes(m.state)>>)
      [] m.kind = "InputChanged" ->
           MessageRaw(addr, INPUT_CHANGED, 2, <<m.input, Trigger_to_bytes(m.trigger)>>)
      [] m.kind = "CallProcedure" ->
           MessageRaw(addr, CALL_PROC, 1, <<m.proc_id>>)
      [] m.kind = "ShutterCmd" ->
           MessageRaw(addr, CALL_SHUTTER, 7, <<m.shutter_idx>> \o Cmd_to_raw(m.cmd))
      [] m.kind = "Status" ->
           MessageRaw(addr, STATUS, 8,
               <<to_le_bytes(m.uptime, 0), to_le_bytes(m.uptime, 1),
                 to_le_bytes(m.uptime, 2), to_le_bytes(m.uptime, 3),
                 to_le_bytes(m.errors, 0), to_le_bytes(m.errors, 1),
                 to_le_bytes(m.warnings, 0), to_le_bytes(m.warnings, 1)>>)
      [] m.kind = "TimeAnnouncement" ->
           MessageRaw(addr, TIME_ANNOUNCEMENT, 8,
               <<to_le_bytes(m.year, 0), to_le_bytes(m.year, 1), m.month, m.day,
                 m.hour, m.minute, m.second, m.day_of_week>>)
      [] m.kind = "Ping" ->
           MessageRaw(addr, PING, 2, <<to_le_bytes(m.body, 0), to_le_bytes(m.body, 1)>>)
      [] m.kind = "Pong" ->
           MessageRaw(addr, PONG, 2, <<to_le_bytes(m.body, 0), to_le_bytes(m.body, 1)>>)
      [] m.kind = "TriggerInput" ->
           MessageRaw(addr, TRIGGER_INPUT, 2, <<m.input, Trigger_to_bytes(m.trigger)>>)
      [] m.kind = "RequestStatus" ->
           MessageRaw(addr, REQUEST_STATUS, 0, <<>>)

-----------------------------------------------------------------------------
(* message.rs: Message::from_raw.  raw.data[i] of the code is d[i+1].      *)

from_raw(raw) ==
    LET d == raw.data
        t == raw.msg_type
    IN  CASE t = SET_OUTPUT ->
               IF raw.length # 2 THEN NoneMsg
               ELSE IF OutputChangeRequest_from_u8(d[2]) = "None" THEN NoneMsg
               ELSE [kind |-> "SetOutput", output |-> d[1],
                     state |-> OutputChangeRequest_from_u8(d[2])]
          [] t = TRIGGER_INPUT ->
               IF raw.length # 2 THEN NoneMsg
               ELSE IF Trigger_from_u8(d[2]) = "None" THEN NoneMsg
               ELSE [kind |-> "TriggerInput", input |-> d[1],
                     trigger |-> Trigger_from_u8(d[2])]
          [] t = CALL_PROC ->
               IF raw.length # 1 THEN NoneMsg
               ELSE [kind |-> "CallProcedure", proc_id |-> d[1]]
          [] t = TIME_ANNOUNCEMENT ->
               IF raw.length # 2 + 1 + 1 + 1 + 1 + 1 + 1 THEN NoneMsg
               ELSE [kind |-> "TimeAnnouncement", year |-> u16_from_le_bytes(d[1], d[2]),
                     month |-> d[3], day |-> d[4], hour |-> d[5], minute |-> d[6],
                     second |-> d[7], day_of_week |-> d[8]]
          [] t = REQUEST_STATUS -> [kind |-> "RequestStatus"]
          [] t = PING -> [kind |-> "Ping", body |-> u16_from_le_bytes(d[1], d[2])]
          [] t = PONG -> [kind |-> "Pong", body |-> u16_from_le_bytes(d[1], d[2])]
          [] t = INFO ->
               [kind |-> "Info", code |-> u16_from_le_bytes(d[1], d[2]), arg |-> 0]
          [] t = ERROR ->
               IF raw.length # 4 THEN NoneMsg
               ELSE [kind |-> "Error", code |-> u32_from_le_bytes(d[1], d[2], d[3], d[4])]
          [] t = OUTPUT_CHANGED ->
               IF raw.length # 2 THEN NoneMsg
               ELSE IF OutputChangeRequest_from_u8(d[2]) = "None" THEN NoneMsg
               ELSE [kind |-> "OutputChanged", output |-> d[1],
                     state |-> OutputChangeRequest_from_u8(d[2])]
          [] t = INPUT_CHANGED ->
               IF raw.length # 2 THEN NoneMsg
               ELSE IF Trigger_from_u8(d[2]) = "None" THEN NoneMsg
               ELSE [kind |-> "InputChanged", input |-> d[1],
                     trigger |-> Trigger_from_u8(d[2])]
          [] t = STATUS_IO ->
               IF raw.length # 3 THEN NoneMsg
               ELSE IF IOState_from_u8(d[3]) = "None" THEN NoneMsg
               ELSE IF d[2] = 0
                    THEN [kind |-> "StatusIO", io |-> [t |-> "Input", idx |-> d[1]],
                          state |-> IOState_from_u8(d[3])]
               ELSE IF d[2] = 1
                    THEN [kind |-> "StatusIO", io |-> [t |-> "Output", idx |-> d[1]],
                          state |-> IOState_from_u8(d[3])]
               ELSE NoneMsg
          [] OTHER -> NoneMsg

-----------------------------------------------------------------------------
(* comm.rs: the frame and the two channels                                 *)

PREAMBULE_LENGTH == 2
CAN_MESSAGE_LENGTH == 3 + 8
SYNC_BYTE_1 == 33
SYNC_BYTE_2_CAN == 124

\* mpsc::channel(15), for out_tx/out_rx and for in_tx/in_rx
CHANNEL_CAPACITY == 15

\* mpsc::channel::<Outgoing>(10) and mpsc::channel::<Incoming>(10)
HA_QUEUE_CAPACITY == 10

\* the longest chunk a read returns in the model; buf is modelled that far
MaxChunk == 14

ZeroBuf == [i \in 1..MaxChunk |-> 0]

\* port.read(&mut buf) returning Len(chunk): the chunk lands at the start of
\* buf, the bytes after it stay as they were
read_into(b, chunk) == [i \in 1..MaxChunk |-> IF i <= Len(chunk) THEN chunk[i] ELSE b[i]]

\* reader, from the preamble check to MessageRaw::from_bytes: what one read
\* of read_len bytes yields.  "rejected": byte 0 is not SYNC_BYTE_1; "skip":
\* another discarded chunk; "panic": the slice packet[3..3 + length] is out
\* of range of the 11-byte packet; "record": a record to send.
reader_chunk_no_length_check(b, read_len) ==
    IF b[1] # SYNC_BYTE_1 THEN [k |-> "rejected"]
    ELSE IF b[2] # SYNC_BYTE_2_CAN THEN [k |-> "skip"]
    ELSE IF 3 + b[5] > CAN_MESSAGE_LENGTH THEN [k |-> "panic"]
    ELSE [k |-> "record",
          raw |-> from_bytes(b[3], b[4], [i \in 1..b[5] |-> b[PREAMBULE_LENGTH + 3 + i]])]

reader_chunk_off_by_one(b, read_len) ==
    IF b[1] # SYNC_BYTE_1 THEN [k |-> "rejected"]
    ELSE IF b[2] # SYNC_BYTE_2_CAN THEN [k |-> "skip"]
    ELSE IF CAN_MESSAGE_LENGTH + PREAMBULE_LENGTH > read_len + 1 THEN [k |-> "skip"]
    ELSE IF 3 + b[5] > CAN_MESSAGE_LENGTH THEN [k |-> "panic"]
    ELSE [k |-> "record",
          raw |-> from_bytes(b[3], b[4], [i \in 1..b[5] |-> b[PREAMBULE_LENGTH + 3 + i]])]

reader_chunk_preamble_length_check(b, read_len) ==
    IF b[1] # SYNC_BYTE_1 THEN [k |-> "rejected"]
    ELSE IF b[2] # SYNC_BYTE_2_CAN THEN [k |-> "skip"]
    ELSE IF PREAMBULE_LENGTH > read_len THEN [k |-> "skip"]
    ELSE IF 3 + b[5] > CAN_MESSAGE_LENGTH THEN [k |-> "panic"]
    ELSE [k |-> "record",
          raw |-> from_bytes(b[3], b[4], [i \in 1..b[5] |-> b[PREAMBULE_LENGTH + 3 + i]])]

reader_chunk(b, read_len) ==
    IF b[1] # SYNC_BYTE_1 THEN [k |-> "rejected"]
    ELSE IF b[2] # SYNC_BYTE_2_CAN THEN [k |-> "skip"]
    ELSE IF CAN_MESSAGE_LENGTH + PREAMBULE_LENGTH > read_len THEN [k |-> "skip"]
    ELSE IF 3 + b[5] > CAN_MESSAGE_LENGTH THEN [k |-> "panic"]
    ELSE [k |-> "record",
          raw |-> from_bytes(b[3], b[4], [i \in 1..b[5] |-> b[PREAMBULE_LENGTH + 3 + i]])]

\* writer's msg.data_as_array(): the payload bytes copied into buf[5..5 + length]
data_as_array(raw) == data_as_slice(raw)

writer_frame_dirty(raw) ==
    LET payload == data_as_array(raw)
    IN  [i \in 1..(PREAMBULE_LENGTH + CAN_MESSAGE_LENGTH) |->
            CASE i = 1 -> SYNC_BYTE_1
              [] i = 2 -> SYNC_BYTE_2_CAN
              [] i = 3 -> addr_type(raw)[1]
              [] i = 4 -> addr_type(raw)[2]
              [] i = 5 -> raw.length
              [] i > 5 /\ i <= 5 + raw.length -> payload[i - 5]
              [] OTHER -> IF wrBuf = <<>> THEN 0 ELSE wrBuf[i]]

writer_frame_swapped(raw) ==
    LET payload == data_as_array(raw)
    IN  [i \in 1..(PREAMBULE_LENGTH + CAN_MESSAGE_LENGTH) |->
            CASE i = 1 -> SYNC_BYTE_1
              [] i = 2 -> SYNC_BYTE_2_CAN
              [] i = 3 -> addr_type(raw)[2]
              [] i = 4 -> addr_type(raw)[1]
              [] i = 5 -> raw.length
              [] i > 5 /\ i <= 5 + raw.length -> payload[i - 5]
              [] OTHER -> 0]

\* writer: msg_buf = &buf[0..total_size] of a zeroed buf
writer_frame(raw) ==
    LET payload == data_as_array(raw)
    IN  [i \in 1..(PREAMBULE_LENGTH + CAN_MESSAGE_LENGTH) |->
            CASE i = 1 -> SYNC_BYTE_1
              [] i = 2 -> SYNC_BYTE_2_CAN
              [] i = 3 -> addr_type(raw)[1]
              [] i = 4 -> addr_type(raw)[2]
              [] i = 5 -> raw.length
              [] i > 5 /\ i <= 5 + raw.length -> payload[i - 5]
              [] OTHER -> 0]

\* main waits in try_join!: the tasks of comm::run and the futures of the
\* two routers run
Alive == mainPc = "join"

NoDevice == [name |-> "none"]

\* the sending half in_tx is dropped when reader returns or unwinds
ReaderEnded == rdPc \in {"err", "panic"}

\* the receiving half out_rx is dropped when writer returns or is dropped
WriterEnded == wrPc \in {"err", "ok", "dropped"}

-----------------------------------------------------------------------------
(* chrono: the weekday of a date, Monday = 1 .. Sunday = 7                 *)

days_from_civil(y, m, d) ==
    LET yy == IF m <= 2 THEN y - 1 ELSE y
        era == yy \div 400
        yoe == yy - era * 400
        mp == IF m > 2 THEN m - 3 ELSE m + 9
        doy == (153 * mp + 2) \div 5 + d - 1
        doe == yoe * 365 + yoe \div 4 - yoe \div 100 + doy
    IN  era * 146097 + doe - 719468

number_from_monday(t) == ((days_from_civil(t.year, t.month, t.day) + 3) % 7) + 1

-----------------------------------------------------------------------------
(* comm.rs: reader                                                         *)

\* port.read returns Ok(count) with count > 0, and the chunk is examined
ReaderRead(chunk) ==
    /\ Alive
    /\ rdPc = "read"
    /\ readsLeft > 0
    /\ LET b == read_into(buf, chunk)
           out == reader_chunk(b, Len(chunk))
           rejected == chunk[1] # SYNC_BYTE_1
           g == IF rejected THEN gBuf ELSE read_into(gBuf, chunk)
       IN  /\ buf' = b
           /\ rdLog' = Append(rdLog, out)
           /\ lastChunk' = chunk
           /\ rdPc' = CASE out.k = "record" -> "send"
                        [] out.k = "panic" -> "panic"
                        [] OTHER -> "read"
           /\ rdPending' = IF out.k = "record" THEN out.raw ELSE rdPending
           /\ gBuf' = g
           /\ gOut' = IF rejected THEN gOut ELSE reader_chunk(g, Len(chunk))
    /\ readsLeft' = readsLeft - 1
    /\ UNCHANGED <<codecVars, mainVars, rdResumed, ingressVars, egressVars>>

\* port.read returns Ok(0): bail!("Reader disconnected")
ReaderReadEof_continues ==
    /\ Alive
    /\ rdPc = "read"
    /\ readsLeft > 0
    /\ rdLog' = Append(rdLog, [k |-> "eof"])
    /\ lastChunk' = <<>>
    /\ readsLeft' = readsLeft - 1
    /\ UNCHANGED <<codecVars, mainVars, rdPc, buf, rdPending, gBuf, gOut, rdResumed, ingressVars,
                   egressVars>>

ReaderReadEof ==
    /\ Alive
    /\ rdPc = "read"
    /\ readsLeft > 0
    /\ rdPc' = "err"
    /\ rdLog' = Append(rdLog, [k |-> "eof"])
    /\ lastChunk' = <<>>
    /\ readsLeft' = readsLeft - 1
    /\ UNCHANGED <<codecVars, mainVars, buf, rdPending, gBuf, gOut, rdResumed, ingressVars, egressVars>>

\* port.read returns Err(e): printed, continue
ReaderReadErr_bails ==
    /\ Alive
    /\ rdPc = "read"
    /\ readsLeft > 0
    /\ rdPc' = "err"
    /\ rdLog' = Append(rdLog, [k |-> "ioerr"])
    /\ lastChunk' = <<>>
    /\ readsLeft' = readsLeft - 1
    /\ UNCHANGED <<codecVars, mainVars, buf, rdPending, gBuf, gOut, rdResumed, ingressVars,
                   egressVars>>

ReaderReadErr ==
    /\ Alive
    /\ rdPc = "read"
    /\ readsLeft > 0
    /\ rdLog' = Append(rdLog, [k |-> "ioerr"])
    /\ lastChunk' = <<>>
    /\ readsLeft' = readsLeft - 1
    /\ UNCHANGED <<codecVars, mainVars, rdPc, buf, rdPending, gBuf, gOut, rdResumed, ingressVars,
                   egressVars>>

ReaderSend_drops_when_full ==
    /\ Alive
    /\ rdPc \in {"send", "wait"}
    /\ IF riPc = "done"
       THEN /\ rdPc' = "err"
            /\ UNCHANGED <<inQ, fwd, rdResumed>>
       ELSE IF Len(inQ) < CHANNEL_CAPACITY
       THEN /\ inQ' = Append(inQ, rdPending)
            /\ fwd' = Append(fwd, rdPending)
            /\ rdPc' = "read"
            /\ rdResumed' = (rdResumed \/ rdPc = "wait")
       ELSE /\ rdPc' = "read"
            /\ UNCHANGED <<inQ, fwd, rdResumed>>
    /\ UNCHANGED <<codecVars, mainVars, buf, rdPending, readsLeft, rdLog, lastChunk, gBuf,
                   gOut, riPc, riPending, haOut, inRecv, evLog, hsPc, egressVars>>

ReaderSend_skips_closed ==
    /\ Alive
    /\ rdPc \in {"send", "wait"}
    /\ IF riPc = "done"
       THEN /\ rdPc' = "read"
            /\ UNCHANGED <<inQ, fwd, rdResumed>>
       ELSE IF Len(inQ) < CHANNEL_CAPACITY
       THEN /\ inQ' = Append(inQ, rdPending)
            /\ fwd' = Append(fwd, rdPending)
            /\ rdPc' = "read"
            /\ rdResumed' = (rdResumed \/ rdPc = "wait")
       ELSE /\ rdPc = "send"
            /\ rdPc' = "wait"
            /\ UNCHANGED <<inQ, fwd, rdResumed>>
    /\ UNCHANGED <<codecVars, mainVars, buf, rdPending, readsLeft, rdLog, lastChunk, gBuf,
                   gOut, riPc, riPending, haOut, inRecv, evLog, hsPc, egressVars>>

\* channel.send(raw).await?  A send fails once the receiver is dropped,
\* completes when the channel has room, and suspends while it is full.
ReaderSend ==
    /\ Alive
    /\ rdPc \in {"send", "wait"}
    /\ IF riPc = "done"
       THEN /\ rdPc' = "err"
            /\ UNCHANGED <<inQ, fwd, rdResumed>>
       ELSE IF Len(inQ) < CHANNEL_CAPACITY
       THEN /\ inQ' = Append(inQ, rdPending)
            /\ fwd' = Append(fwd, rdPending)
            /\ rdPc' = "read"
            /\ rdResumed' = (rdResumed \/ rdPc = "wait")
       ELSE /\ rdPc = "send"
            /\ rdPc' = "wait"
            /\ UNCHANGED <<inQ, fwd, rdResumed>>
    /\ UNCHANGED <<codecVars, mainVars, buf, rdPending, readsLeft, rdLog, lastChunk, gBuf,
                   gOut, riPc, riPending, haOut, inRecv, evLog, hsPc, egressVars>>

\* port.read returns a whole frame that writer has handed to the transport:
\* the two halves of the port joined by a loopback
LoopbackRead == \E i \in 1..Len(written) : ReaderRead(written[i])

-----------------------------------------------------------------------------
(* main.rs: task_usb_to_mqtt                                               *)

\* what the loop body does with a received record, up to the next await:
\* the Outgoing event to send, or NoneMsg when the loop continues
usb_to_mqtt_event_forward_undecoded(raw) ==
    LET msg == from_raw(raw)
    IN  IF msg.kind = "OutputChanged"
           /\ OutputChangeRequest_try_to_bool(msg.state) # "None"
        THEN [kind |-> "OutputChanged", device |-> addr_type(raw)[1],
              output |-> msg.output,
              on |-> OutputChangeRequest_try_to_bool(msg.state)]
        ELSE IF msg = NoneMsg
        THEN [kind |-> "OutputChanged", device |-> addr_type(raw)[1],
              output |-> raw.data[1], on |-> "false"]
        ELSE NoneMsg

usb_to_mqtt_event_toggle_on(raw) ==
    LET msg == from_raw(raw)
    IN  IF msg.kind = "OutputChanged"
        THEN [kind |-> "OutputChanged", device |-> addr_type(raw)[1],
              output |-> msg.output,
              on |-> IF msg.state = "Off" THEN "false" ELSE "true"]
        ELSE NoneMsg

usb_to_mqtt_event(raw) ==
    LET msg == from_raw(raw)
    IN  IF msg.kind = "OutputChanged"
           /\ OutputChangeRequest_try_to_bool(msg.state) # "None"
        THEN [kind |-> "OutputChanged", device |-> addr_type(raw)[1],
              output |-> msg.output,
              on |-> OutputChangeRequest_try_to_bool(msg.state)]
        ELSE NoneMsg

RouterInRecv_breaks_on_undecodable ==
    /\ Alive
    /\ riPc = "recv"
    /\ inQ # <<>>
    /\ inQ' = Tail(inQ)
    /\ inRecv' = Append(inRecv, Head(inQ))
    /\ LET ev == usb_to_mqtt_event(Head(inQ))
       IN  IF from_raw(Head(inQ)) = NoneMsg
           THEN riPc' = "done" /\ UNCHANGED riPending
           ELSE IF ev = NoneMsg
           THEN UNCHANGED <<riPc, riPending>>
           ELSE /\ riPc' = "send"
                /\ riPending' = ev
    /\ UNCHANGED <<codecVars, mainVars, readerVars, haOut, fwd, evLog, hsPc, egressVars>>

\* comm.rx.recv() returns Some(raw)
RouterInRecv ==
    /\ Alive
    /\ riPc = "recv"
    /\ inQ # <<>>
    /\ inQ' = Tail(inQ)
    /\ inRecv' = Append(inRecv, Head(inQ))
    /\ LET ev == usb_to_mqtt_event(Head(inQ))
       IN  IF ev = NoneMsg
           THEN UNCHANGED <<riPc, riPending>>
           ELSE /\ riPc' = "send"
                /\ riPending' = ev
    /\ UNCHANGED <<codecVars, mainVars, readerVars, haOut, fwd, evLog, hsPc, egressVars>>

\* comm.rx.recv() returns None: every sender is gone and the queue is empty
RouterInClosed ==
    /\ Alive
    /\ riPc = "recv"
    /\ inQ = <<>>
    /\ ReaderEnded
    /\ riPc' = "done"
    /\ UNCHANGED <<codecVars, mainVars, readerVars, inQ, riPending, haOut, fwd, inRecv,
                   evLog, hsPc, egressVars>>

\* the sender task has unwound and dropped the receiving half of
\* HomeAssistant.outgoing
HaSenderEnded == hsPc = "panic"

\* ha_sender.send(...).await on HomeAssistant.outgoing; a failed send breaks
\* the loop, and the future, once complete, drops comm.rx and what it holds
RouterInSend ==
    /\ Alive
    /\ riPc \in {"send", "wait"}
    /\ IF HaSenderEnded
       THEN /\ riPc' = "done"
            /\ inQ' = <<>>
            /\ UNCHANGED <<haOut, evLog>>
       ELSE IF Len(haOut) < HA_QUEUE_CAPACITY
       THEN /\ haOut' = Append(haOut, riPending)
            /\ evLog' = Append(evLog, riPending)
            /\ riPc' = "recv"
            /\ UNCHANGED inQ
       ELSE /\ riPc = "send"
            /\ riPc' = "wait"
            /\ UNCHANGED <<inQ, haOut, evLog>>
    /\ UNCHANGED <<codecVars, mainVars, readerVars, riPending, hsPc, fwd, inRecv,
                   egressVars>>

\* homeassistant sender: queue.recv() returns Some(command), and what the
\* client is asked to do with it succeeds, or is a publish of a discovery
\* document, whose failure is only logged
HaSenderRecv ==
    /\ mainPc # "exited"
    /\ hsPc = "run"
    /\ haOut # <<>>
    /\ haOut' = Tail(haOut)
    /\ UNCHANGED <<codecVars, mainVars, readerVars, inQ, riPc, riPending, fwd, inRecv,
                   evLog, hsPc, egressVars>>

\* homeassistant sender: queue.recv() returns Some(command) and
\* client.subscribe fails (panic!), or the publish of Initial or of RawTest
\* fails (expect): the task unwinds, and the queue is dropped with it
HaSenderPanic ==
    /\ mainPc # "exited"
    /\ hsPc = "run"
    /\ haOut # <<>>
    /\ Head(haOut).kind \in {"Subscribe", "Initial", "RawTest"}
    /\ hsPc' = "panic"
    /\ haOut' = <<>>
    /\ UNCHANGED <<codecVars, mainVars, readerVars, inQ, riPc, riPending, fwd, inRecv,
                   evLog, egressVars>>

-----------------------------------------------------------------------------
(* homeassistant receiver, main.rs: task_mqtt_to_usb and the time task     *)

\* receiver, spawned by Initiator::start before main queues anything: a
\* publish on smartenough/<device>/switch/<output>/set is queued;
\* queue.send suspends while HomeAssistant.incoming is full
HaReceiverPublish(cmd) ==
    /\ mainPc # "exited"
    /\ hrPc = "poll"
    /\ cmdsLeft > 0
    /\ Len(haIn) < HA_QUEUE_CAPACITY
    /\ haIn' = Append(haIn, cmd)
    /\ cmdsLeft' = cmdsLeft - 1
    /\ UNCHANGED <<codecVars, mainVars, readerVars, ingressVars, roPc, roPending, roLog,
                   hrPc, hrErrs, ttPc, ttPending, ttNow, outQ, wrPc, wrBuf, ticksLeft,
                   outAcc, wrRecv, written, resumed>>

\* receiver: event_loop.poll() returns Err(ConnectionError), which falls to
\* the arm `_ => { info!(..); continue; }`
HaReceiverPollErr ==
    /\ mainPc # "exited"
    /\ hrPc = "poll"
    /\ cmdsLeft > 0
    /\ cmdsLeft' = cmdsLeft - 1
    /\ hrErrs' = hrErrs + 1
    /\ UNCHANGED <<codecVars, mainVars, readerVars, ingressVars, haIn, roPc, roPending,
                   roLog, hrPc, ttPc, ttPending, ttNow, outQ, wrPc, wrBuf, ticksLeft,
                   outAcc, wrRecv, written, resumed>>

\* receiver: a command is published after main has returned and dropped
\* HomeAssistant with the receiving half of incoming: queue.send fails, return
HaReceiverSendFails ==
    /\ mainPc = "exited"
    /\ hrPc = "poll"
    /\ cmdsLeft > 0
    /\ cmdsLeft' = cmdsLeft - 1
    /\ hrPc' = "done"
    /\ UNCHANGED <<codecVars, mainVars, readerVars, ingressVars, haIn, roPc, roPending,
                   roLog, hrErrs, ttPc, ttPending, ttNow, outQ, wrPc, wrBuf, ticksLeft,
                   outAcc, wrRecv, written, resumed>>

\* the record task_mqtt_to_usb builds for a command, NoneMsg for RawTest
mqtt_to_usb_record_addr0(cmd) ==
    IF cmd.kind = "SetOutput"
    THEN to_raw([kind |-> "SetOutput", output |-> cmd.output,
                 state |-> OutputChangeRequest_from_bool(cmd.on)], 0)
    ELSE NoneMsg

mqtt_to_usb_record(cmd) ==
    IF cmd.kind = "SetOutput"
    THEN to_raw([kind |-> "SetOutput", output |-> cmd.output,
                 state |-> OutputChangeRequest_from_bool(cmd.on)], cmd.device)
    ELSE NoneMsg

\* ha.recv() returns Some(msg)
RouterOutRecv ==
    /\ Alive
    /\ roPc = "recv"
    /\ haIn # <<>>
    /\ haIn' = Tail(haIn)
    /\ roLog' = Append(roLog, Head(haIn))
    /\ LET raw == mqtt_to_usb_record(Head(haIn))
       IN  IF raw = NoneMsg
           THEN UNCHANGED <<roPc, roPending>>
           ELSE /\ roPc' = "send"
                /\ roPending' = raw
    /\ UNCHANGED <<codecVars, mainVars, readerVars, ingressVars, hrPc, hrErrs, ttPc,
                   ttPending, ttNow, outQ, wrPc, wrBuf, cmdsLeft, ticksLeft, outAcc,
                   wrRecv, written, resumed>>

\* ha.recv() returns None: the receiver task has ended and dropped the
\* sending half of HomeAssistant.incoming, and the queue is empty
RouterOutClosed ==
    /\ Alive
    /\ roPc = "recv"
    /\ haIn = <<>>
    /\ hrPc = "done"
    /\ roPc' = "done"
    /\ UNCHANGED <<codecVars, mainVars, readerVars, ingressVars, haIn, roPending, roLog,
                   hrPc, hrErrs, ttPc, ttPending, ttNow, outQ, wrPc, wrBuf, cmdsLeft,
                   ticksLeft, outAcc, wrRecv, written, resumed>>

\* comm_tx.send(raw).await of producer p holding record raw at pc: the new
\* <<pc, outQ, outAcc, resumed>>.  The send fails once writer has dropped
\* out_rx, completes when the channel has room, suspends while it is full.
egress_send_accepting_closed(p, pc, raw) ==
    IF Len(outQ) < CHANNEL_CAPACITY
    THEN <<"next", Append(outQ, [src |-> p, raw |-> raw]),
           Append(outAcc, [src |-> p, raw |-> raw]),
           IF pc = "wait" THEN resumed \cup {p} ELSE resumed>>
    ELSE <<"wait", outQ, outAcc, resumed>>

egress_send_dropping(p, pc, raw) ==
    IF WriterEnded THEN <<"done", outQ, outAcc, resumed>>
    ELSE IF Len(outQ) < CHANNEL_CAPACITY
    THEN <<"next", Append(outQ, [src |-> p, raw |-> raw]),
           Append(outAcc, [src |-> p, raw |-> raw]),
           IF pc = "wait" THEN resumed \cup {p} ELSE resumed>>
    ELSE <<"next", outQ, outAcc, resumed>>

egress_send(p, pc, raw) ==
    IF WriterEnded THEN <<"done", outQ, outAcc, resumed>>
    ELSE IF Len(outQ) < CHANNEL_CAPACITY
    THEN <<"next", Append(outQ, [src |-> p, raw |-> raw]),
           Append(outAcc, [src |-> p, raw |-> raw]),
           IF pc = "wait" THEN resumed \cup {p} ELSE resumed>>
    ELSE <<"wait", outQ, outAcc, resumed>>

\* comm_tx.send(raw).await in task_mqtt_to_usb
RouterOutSend ==
    /\ Alive
    /\ roPc \in {"send", "wait"}
    /\ LET r == egress_send("router", roPc, roPending)
       IN  /\ r[1] = "wait" => roPc = "send"
           /\ roPc' = IF r[1] = "next" THEN "recv" ELSE r[1]
           /\ outQ' = r[2]
           /\ outAcc' = r[3]
           /\ resumed' = r[4]
    /\ UNCHANGED <<codecVars, mainVars, readerVars, ingressVars, haIn, roPending, roLog,
                   hrPc, hrErrs, ttPc,
                   ttPending, ttNow, wrPc, wrBuf, cmdsLeft, ticksLeft, wrRecv, written>>

\* the time task's record for the instant now: addr 0
time_record(now) ==
    to_raw([kind |-> "TimeAnnouncement", year |-> now.year % 65536,
            month |-> now.month % 256, day |-> now.day % 256, hour |-> now.hour % 256,
            minute |-> now.minute % 256, second |-> now.second % 256,
            day_of_week |-> number_from_monday(now) % 256], 0)

\* the 60 s sleep elapses at instant now.  ticksLeft bounds the ticks of a
\* running writer only: once the writer has ended the sleep still elapses,
\* and the send that follows fails.
TimeTick(now) ==
    /\ Alive
    /\ ttPc = "sleep"
    /\ ticksLeft > 0 \/ WriterEnded
    /\ ticksLeft' = IF ticksLeft > 0 THEN ticksLeft - 1 ELSE 0
    /\ ttNow' = now
    /\ ttPending' = time_record(now)
    /\ ttPc' = "send"
    /\ UNCHANGED <<codecVars, mainVars, readerVars, ingressVars, haIn, roPc, roPending, roLog,
                   hrPc, hrErrs,
                   outQ, wrPc, wrBuf, cmdsLeft, outAcc, wrRecv, written, resumed>>

\* comm_tx.send(raw).await in the time task
TimeSend ==
    /\ Alive
    /\ ttPc \in {"send", "wait"}
    /\ LET r == egress_send("time", ttPc, ttPending)
       IN  /\ r[1] = "wait" => ttPc = "send"
           /\ ttPc' = IF r[1] = "next" THEN "sleep" ELSE r[1]
           /\ outQ' = r[2]
           /\ outAcc' = r[3]
           /\ resumed' = r[4]
    /\ UNCHANGED <<codecVars, mainVars, readerVars, ingressVars, haIn, roPc, roPending, roLog,
                   hrPc, hrErrs,
                   ttPending, ttNow, wrPc, wrBuf, cmdsLeft, ticksLeft, wrRecv, written>>

-----------------------------------------------------------------------------
(* comm.rs: writer                                                         *)

\* Every holder of a sender is gone: main keeps comm.tx, and the future of
\* task_mqtt_to_usb its clone, until main returns; the time task keeps its
\* clone until it ends or is dropped with the runtime.
SendersDropped == ~Alive /\ ttPc \in {"done", "dropped"}

\* channel.recv() returns Some(msg); the frame is laid out in a zeroed buf.
\* writer is a spawned task: after main has returned it may still be polled
\* until the runtime, which is being dropped, reaches it.
WriterRecv ==
    /\ wrPc = "recv"
    /\ outQ # <<>>
    /\ outQ' = Tail(outQ)
    /\ wrRecv' = Append(wrRecv, Head(outQ))
    /\ wrBuf' = writer_frame(Head(outQ).raw)
    /\ wrPc' = "write"
    /\ UNCHANGED <<codecVars, mainVars, readerVars, ingressVars, haIn, roPc, roPending, roLog,
                   hrPc, hrErrs,
                   ttPc, ttPending, ttNow, cmdsLeft, ticksLeft, outAcc, written, resumed>>

\* port.write(msg_buf) returns Ok(size)
WriterWriteOk ==
    /\ wrPc = "write"
    /\ written' = Append(written, wrBuf)
    /\ wrPc' = "recv"
    /\ UNCHANGED <<codecVars, mainVars, readerVars, ingressVars, haIn, roPc, roPending, roLog,
                   hrPc, hrErrs,
                   ttPc, ttPending, ttNow, outQ, wrBuf, cmdsLeft, ticksLeft, outAcc,
                   wrRecv, resumed>>

\* port.write(msg_buf) returns Err: bail!; out_rx is dropped and with it the
\* records still queued
WriterWriteErr ==
    /\ wrPc = "write"
    /\ wrPc' = "err"
    /\ outQ' = <<>>
    /\ UNCHANGED <<codecVars, mainVars, readerVars, ingressVars, haIn, roPc, roPending, roLog,
                   hrPc, hrErrs,
                   ttPc, ttPending, ttNow, wrBuf, cmdsLeft, ticksLeft, outAcc, wrRecv,
                   written, resumed>>

\* channel.recv() returns None, every sender being dropped and the channel
\* empty: return Ok(())
WriterRecvClosed ==
    /\ wrPc = "recv"
    /\ SendersDropped
    /\ outQ = <<>>
    /\ wrPc' = "ok"
    /\ UNCHANGED <<codecVars, mainVars, readerVars, ingressVars, haIn, roPc, roPending, roLog,
                   hrPc, hrErrs,
                   ttPc, ttPending, ttNow, outQ, wrBuf, cmdsLeft, ticksLeft, outAcc,
                   wrRecv, written, resumed>>

-----------------------------------------------------------------------------
(* main.rs: main, and the runtime of #[tokio::main]                        *)

\* main has returned and the runtime is dropped: the time task is dropped
\* where it waits, and its clone of comm.tx with it
TimeDropped ==
    /\ ~Alive
    /\ ttPc \in {"sleep", "send", "wait"}
    /\ ttPc' = "dropped"
    /\ UNCHANGED <<codecVars, mainVars, readerVars, ingressVars, haIn, roPc, roPending, roLog,
                   hrPc, hrErrs,
                   ttPending, ttNow, outQ, wrPc, wrBuf, cmdsLeft, ticksLeft, outAcc,
                   wrRecv, written, resumed>>

\* main has returned and the runtime is dropped: writer is dropped where it
\* waits, and out_rx with it and the records still queued
WriterDropped ==
    /\ ~Alive
    /\ wrPc \in {"recv", "write"}
    /\ wrPc' = "dropped"
    /\ outQ' = <<>>
    /\ UNCHANGED <<codecVars, mainVars, readerVars, ingressVars, haIn, roPc, roPending, roLog,
                   hrPc, hrErrs,
                   ttPc, ttPending, ttNow, wrBuf, cmdsLeft, ticksLeft, outAcc, wrRecv,
                   written, resumed>>

\* Component::new_switch and Component::new_input: a switch has a command
\* topic, an input has none (<<>>)
Component_new_switch(device_addr, idx) ==
    [platform |-> "switch", unique_id |-> <<"io-gate", device_addr, idx>>,
     command_topic |-> <<"smartenough", device_addr, "switch", idx, "set">>]

Component_new_input(device_addr, idx) ==
    [platform |-> "binary_sensor", unique_id |-> <<"io-gate-in", device_addr, idx>>,
     command_topic |-> <<>>]

\* discovery::new_device for a device whose outputs have distinct ids: a
\* switch per output, and an input per input whose label no output has
new_device(d) ==
    [device |-> <<"gate", d.addr>>,
     components |->
        {Component_new_switch(d.addr, io.id) : io \in d.outputs}
        \cup {Component_new_input(d.addr, io.id) :
                 io \in {i \in d.inputs : \A o \in d.outputs : o.label # i.label}}]

\* ha.send(msg).await of main at startup: the new <<outcome, haOut, evLog>>.
\* The send fails once the sender task has dropped the queue, and completes
\* when the queue has room; "full" is the suspended send.
ha_send(msg) ==
    IF HaSenderEnded THEN <<"err", haOut, evLog>>
    ELSE IF Len(haOut) < HA_QUEUE_CAPACITY
    THEN <<"ok", Append(haOut, msg), Append(evLog, msg)>>
    ELSE <<"full", haOut, evLog>>

\* ha.send(Outgoing::Initial).await.expect("Should send")
StartupInitial ==
    /\ mainPc = "initial"
    /\ LET r == ha_send([kind |-> "Initial"])
       IN  /\ r[1] # "full"
           /\ haOut' = r[2]
           /\ evLog' = r[3]
           /\ mainPc' = IF r[1] = "ok" THEN "config" ELSE "exited"
           /\ mainResult' = IF r[1] = "ok" THEN mainResult ELSE "panic"
    /\ UNCHANGED <<codecVars, cfgLeft, stDev, stComps, readerVars, inQ, riPc, riPending,
                   hsPc, fwd, inRecv, egressVars>>

\* init_config: the next device of config.devices, and its discovery message
InitConfigDevice ==
    /\ mainPc = "config"
    /\ \E d \in cfgLeft :
          /\ cfgLeft' = cfgLeft \ {d}
          /\ stDev' = d
          /\ stComps' = new_device(d).components
    /\ mainPc' = "subscribe"
    /\ UNCHANGED <<codecVars, mainResult, readerVars, ingressVars, egressVars>>

\* init_config: ha.send(Outgoing::Subscribe(component.command_topic.clone()))
\* .await? for the next of message.components.values()
InitConfigSubscribe ==
    /\ mainPc = "subscribe"
    /\ \E c \in stComps :
          LET r == ha_send([kind |-> "Subscribe", topic |-> c.command_topic])
          IN  /\ r[1] # "full"
              /\ haOut' = r[2]
              /\ evLog' = r[3]
              /\ stComps' = stComps \ {c}
              /\ mainPc' = IF r[1] = "ok" THEN "subscribe" ELSE "exited"
              /\ mainResult' = IF r[1] = "ok" THEN mainResult ELSE "Err"
    /\ UNCHANGED <<codecVars, cfgLeft, stDev, readerVars, inQ, riPc, riPending, hsPc, fwd,
                   inRecv, egressVars>>

\* init_config: ha.send(Outgoing::DiscoveryDevice(message)).await?
InitConfigDiscovery ==
    /\ mainPc = "subscribe"
    /\ stComps = {}
    /\ LET r == ha_send([kind |-> "DiscoveryDevice", device |-> new_device(stDev).device,
                         components |-> new_device(stDev).components])
       IN  /\ r[1] # "full"
           /\ haOut' = r[2]
           /\ evLog' = r[3]
           /\ mainPc' = IF r[1] = "ok" THEN "config" ELSE "exited"
           /\ mainResult' = IF r[1] = "ok" THEN mainResult ELSE "Err"
    /\ stDev' = NoDevice
    /\ UNCHANGED <<codecVars, cfgLeft, stComps, readerVars, inQ, riPc, riPending, hsPc,
                   fwd, inRecv, egressVars>>

\* init_config returns Ok(()) after the last device
InitConfigDone ==
    /\ mainPc = "config"
    /\ cfgLeft = {}
    /\ mainPc' = "run"
    /\ UNCHANGED <<codecVars, mainResult, cfgLeft, stDev, stComps, readerVars, ingressVars,
                   egressVars>>

\* comm::run: the port opens, reader and writer are spawned; main spawns
\* the time task and waits in try_join!
CommRun ==
    /\ mainPc = "run"
    /\ mainPc' = "join"
    /\ UNCHANGED <<codecVars, mainResult, cfgLeft, stDev, stComps, readerVars, ingressVars,
                   egressVars>>

\* comm::run: SerialStream::open fails, and `?` returns the error from main
CommRunErr ==
    /\ mainPc = "run"
    /\ mainPc' = "exited"
    /\ mainResult' = "Err"
    /\ UNCHANGED <<codecVars, cfgLeft, stDev, stComps, readerVars, ingressVars, egressVars>>

\* a join that returns only when both router loops have ended
MainJoin_waits_for_both ==
    /\ Alive
    /\ roPc = "done"
    /\ riPc = "done"
    /\ mainPc' = "exited"
    /\ mainResult' = "Ok"
    /\ UNCHANGED <<codecVars, cfgLeft, stDev, stComps, readerVars, ingressVars, egressVars>>

\* try_join!(task_mqtt_to_usb, task_usb_to_mqtt) returns at the first Err;
\* its result is discarded and main returns Ok(())
MainJoin ==
    /\ Alive
    /\ "done" \in {roPc, riPc}
    /\ mainPc' = "exited"
    /\ mainResult' = "Ok"
    /\ UNCHANGED <<codecVars, cfgLeft, stDev, stComps, readerVars, ingressVars, egressVars>>

-----------------------------------------------------------------------------
(* The codec harness: inputs drawn from bounded sets, then the pure        *)
(* functions of message.rs applied to them.                                *)

\* field values the harness draws from
U8Vals == {0, 5, 255}
U16Vals == {0, 10, 258, 65535}
U32Vals == {0, 1, 305419896, 2147483647}
AddrVals == {0, 2, 63, 200}
OutputChangeRequests == {"Off", "On", "Toggle"}
IOStates == {"Off", "On", "Error", "Unknown"}
Triggers == {"ShortClick", "LongClick", "Activated", "Deactivated",
             "LongActivated", "LongDeactivated"}
Cmds ==
    {[c |-> "Go", a |-> 40, b |-> 100], [c |-> "Open"], [c |-> "Close"],
     [c |-> "Tilt", a |-> 50], [c |-> "TiltClose"], [c |-> "TiltOpen"],
     [c |-> "TiltHalf"], [c |-> "TiltReverse"], [c |-> "SetIO", a |-> 3, b |-> 4]}
Instants ==
    {[year |-> 2024, month |-> 3, day |-> 1, hour |-> 10, minute |-> 15, second |-> 30],
     [year |-> 2023, month |-> 12, day |-> 31, hour |-> 23, minute |-> 59, second |-> 59]}

\* every variant of enum Message
MessageSet ==
    {[kind |-> "Error", code |-> c] : c \in U32Vals}
    \cup {[kind |-> "Info", code |-> c, arg |-> a] : c \in U16Vals, a \in U32Vals}
    \cup {[kind |-> "OutputChanged", output |-> o, state |-> s] :
              o \in U8Vals, s \in OutputChangeRequests}
    \cup {[kind |-> "StatusIO", io |-> [t |-> t, idx |-> i], state |-> s] :
              t \in {"Input", "Output"}, i \in U8Vals, s \in IOStates}
    \cup {[kind |-> "InputChanged", input |-> i, trigger |-> t] :
              i \in U8Vals, t \in Triggers}
    \cup {[kind |-> "SetOutput", output |-> o, state |-> s] :
              o \in U8Vals, s \in OutputChangeRequests}
    \cup {[kind |-> "TriggerInput", input |-> i, trigger |-> t] :
              i \in U8Vals, t \in Triggers}
    \cup {[kind |-> "ShutterCmd", shutter_idx |-> i, cmd |-> c] : i \in {0, 5}, c \in Cmds}
    \cup {[kind |-> "RequestStatus"]}
    \cup {[kind |-> "Ping", body |-> b] : b \in U16Vals}
    \cup {[kind |-> "Pong", body |-> b] : b \in U16Vals}
    \cup {[kind |-> "Status", uptime |-> u, errors |-> e, warnings |-> w] :
              u \in U32Vals, e \in {0, 258}, w \in {0, 65535}}
    \cup {[kind |-> "TimeAnnouncement", year |-> t.year, month |-> t.month,
           day |-> t.day, hour |-> t.hour, minute |-> t.minute, second |-> t.second,
           day_of_week |-> w] : t \in Instants, w \in {1, 7}}
    \cup {[kind |-> "CallProcedure", proc_id |-> p] : p \in U8Vals}

\* payload arrays of the records the harness decodes
Payloads ==
    {<<>>, <<5, 1>>, <<1, 2, 3, 4, 5, 6, 7, 8>>, <<7, 0, 9, 0, 0, 255, 0, 0>>,
     <<5, 3>>, <<0, 6, 4>>, <<3, 1, 4>>, <<3, 255, 0>>, <<10, 0, 120, 86, 52, 18>>}

\* records as they may arrive: any 5-bit type, any length 0..8
RawSet ==
    {MessageRaw(a, t, l, p) : a \in {2}, t \in 0..31, l \in 0..8, p \in Payloads}
    \cup {MessageRaw(a, t, 0, <<>>) : a \in 0..63, t \in 0..31}

NoRaw == MessageRaw(0, 0, 0, <<>>)

-----------------------------------------------------------------------------
(* What the environment delivers                                           *)

\* a whole frame as it arrives from the transport
Frame(addr, msg_type, length, payload) ==
    <<SYNC_BYTE_1, SYNC_BYTE_2_CAN, addr, msg_type, length>>
        \o [i \in 1..8 |-> Data8(payload)[i]]

\* OutputChanged{output 5, On} from device 2
FrameOutputOn == Frame(2, OUTPUT_CHANGED, 2, <<5, 1>>)
\* OutputChanged{output 7, Off} from device 3, and from device 200
FrameOutputOff == Frame(3, OUTPUT_CHANGED, 2, <<7, 0>>)
FrameOutputOffWide == Frame(200, OUTPUT_CHANGED, 2, <<255, 0>>)
\* OutputChanged{output 5, Toggle} from device 2
FrameOutputToggle == Frame(2, OUTPUT_CHANGED, 2, <<5, 2>>)
\* Info{Started} from device 4 and InputChanged{input 7, LongClick} from device 3
FrameInfoStarted == Frame(4, INFO, 6, <<10, 0, 0, 0, 0, 0>>)
FrameInputChanged == Frame(3, INPUT_CHANGED, 2, <<7, 1>>)
\* a frame whose addr and msg_type bytes exceed 6 and 5 bits
FrameWide == Frame(200, 36, 0, <<>>)
\* a frame whose length byte is 9
FrameLong == Frame(2, OUTPUT_CHANGED, 9, <<5, 1>>)
\* a valid frame but for its first byte
ChunkBadSync1 == <<153, SYNC_BYTE_2_CAN, 3, INPUT_CHANGED, 2, 7, 1, 0, 0, 0, 0, 0, 0>>
\* a second sync byte of no known family
ChunkBadSync2 == <<SYNC_BYTE_1, 0, 2, OUTPUT_CHANGED, 2, 5, 1, 0, 0, 0, 0, 0, 0>>
\* a frame cut after 12 bytes, and chunks of one and two bytes
ChunkShort == SubSeq(Frame(2, OUTPUT_CHANGED, 2, <<5, 0>>), 1, 12)
ChunkOne == <<SYNC_BYTE_1>>
ChunkTwo == <<SYNC_BYTE_1, SYNC_BYTE_2_CAN>>
\* a frame followed by one more byte
ChunkOver == Frame(4, INFO, 2, <<10, 0>>) \o <<SYNC_BYTE_1>>

\* chunks of the whole gateway's runs
PipelineChunks == {FrameOutputOn, FrameWide, FrameLong, ChunkBadSync1}

\* chunks of the framer's runs
FramerChunks ==
    {FrameOutputOn, FrameWide, FrameLong, ChunkBadSync1, ChunkBadSync2, ChunkShort,
     ChunkOne, ChunkTwo, ChunkOver}

\* chunks of the ingress runs: one whole frame each
IngressChunks ==
    {FrameOutputOn, FrameOutputOff, FrameOutputOffWide, FrameOutputToggle,
     FrameInfoStarted, FrameInputChanged}

\* the 5-bit type codes that fall to from_raw's `_ => None` arm
UnknownTypes == (0..31) \ {SET_OUTPUT, TRIGGER_INPUT, CALL_PROC, TIME_ANNOUNCEMENT,
                           REQUEST_STATUS, PING, PONG, INFO, ERROR, OUTPUT_CHANGED,
                           INPUT_CHANGED, STATUS_IO}

\* chunks of the runs with records of unknown type: a frame of each unknown
\* type, and a frame that is forwarded
UnknownTypeChunks == {Frame(2, t, 2, <<5, 1>>) : t \in UnknownTypes} \cup {FrameOutputOn}

\* TimeAnnouncement from device 2, whose last payload byte is 0x21
FrameTime == Frame(2, TIME_ANNOUNCEMENT, 8, <<232, 7, 3, 1, 10, 15, 30, 33>>)

\* a frame delivered in two reads: its first k bytes, then the rest
SplitHead(f, k) == SubSeq(f, 1, k)
SplitTail(f, k) == SubSeq(f, k + 1, Len(f))
SplitPoints == {1, 2, 5, 12}

\* chunks of the runs with split frames: the two parts of each split, and
\* a whole frame
SplitChunks ==
    {SplitHead(f, k) : f \in {FrameOutputOn, FrameTime}, k \in SplitPoints}
    \cup {SplitTail(f, k) : f \in {FrameOutputOn, FrameTime}, k \in SplitPoints}
    \cup {FrameOutputOn}

\* frames of records that from_raw does not decode: a length that is not
\* the type's, a state, trigger, io kind or io state byte out of range, a
\* type without an arm
UndecodableFrames ==
    {Frame(2, OUTPUT_CHANGED, 3, <<5, 1, 0>>),
     Frame(2, OUTPUT_CHANGED, 2, <<5, 7>>),
     Frame(3, INPUT_CHANGED, 2, <<7, 9>>),
     Frame(2, STATUS_IO, 3, <<1, 2, 0>>),
     Frame(2, STATUS_IO, 3, <<1, 0, 4>>),
     Frame(2, STATUS, 8, <<1, 0, 0, 0, 2, 0, 3, 0>>),
     Frame(2, 31, 0, <<>>)}

\* chunks of the runs with undecodable records, and a frame that is forwarded
UndecodableChunks == UndecodableFrames \cup {FrameOutputOn}

\* devices of config.devices: the entries of outputs and of inputs
Devices ==
    {[name |-> "hall", addr |-> 2,
      outputs |-> {[label |-> "lamp", id |-> 5], [label |-> "fan", id |-> 6]},
      inputs |-> {[label |-> "door", id |-> 7]}],
     [name |-> "attic", addr |-> 3,
      outputs |-> {[label |-> "vent", id |-> 1]},
      inputs |-> {}]}

\* Incoming::SetOutput commands the collaborator publishes
Commands ==
    {[kind |-> "SetOutput", device |-> 2, output |-> 5, on |-> TRUE],
     [kind |-> "SetOutput", device |-> 200, output |-> 255, on |-> FALSE]}

\* every variant of enum Incoming that may sit in HomeAssistant.incoming
Incomings == Commands \cup {[kind |-> "RawTest", raw |-> <<1, 2>>]}

\* reads and commands of the runs in which both directions are busy
MaxReads == 1
MaxCmds == 1
\* reads of the runs in which only the transport delivers
DeepReads == 3
\* commands and ticks of the runs in which only the collaborator and the
\* clock deliver
DeepCmds == 2
DeepTicks == 2
\* reads of the framer's runs
FramerReads == 3
\* commands of the egress runs: one more than the egress channel holds
EgressCmds == 16
\* commands of the runs of task_mqtt_to_usb
RouterCmds == 3
\* reads of the ingress runs
IngressReads == 3
\* reads of the runs with records of unknown type
UnknownTypeReads == 2
\* reads of the runs with split frames
SplitReads == 3
\* reads of the runs with undecodable records
UndecodableReads == 3
\* reads and commands of the runs that begin with main's startup
StartupReads == 3
StartupCmds == 1
\* reads of the runs with a stalled collaborator: what its queue, the
\* ingress channel, task_usb_to_mqtt and reader hold together
ThrottleReads == 27
\* reads and commands of the runs with a loopback
LoopReads == 2
LoopCmds == 2

PipelineInit(reads, cmds, ticks) ==
    /\ mainPc = "join"
    /\ mainResult = "none"
    /\ cfgLeft = {}
    /\ stDev = NoDevice
    /\ stComps = {}
    /\ hsPc = "run"
    /\ hrPc = "poll"
    /\ hrErrs = 0
    /\ rdResumed = FALSE
    /\ rdPc = "read"
    /\ buf = ZeroBuf
    /\ rdPending = NoRaw
    /\ readsLeft = reads
    /\ rdLog = <<>>
    /\ lastChunk = <<>>
    /\ gBuf = ZeroBuf
    /\ gOut = [k |-> "rejected"]
    /\ inQ = <<>>
    /\ riPc = "recv"
    /\ riPending = NoneMsg
    /\ haOut = <<>>
    /\ fwd = <<>>
    /\ inRecv = <<>>
    /\ haIn = <<>>
    /\ roPc = "recv"
    /\ roPending = NoRaw
    /\ ttPc = "sleep"
    /\ ttPending = NoRaw
    /\ ttNow = [year |-> 1970, month |-> 1, day |-> 1, hour |-> 0, minute |-> 0,
                second |-> 0]
    /\ outQ = <<>>
    /\ wrPc = "recv"
    /\ wrBuf = <<>>
    /\ cmdsLeft = cmds
    /\ ticksLeft = ticks
    /\ outAcc = <<>>
    /\ wrRecv = <<>>
    /\ written = <<>>
    /\ resumed = {}
    /\ roLog = <<>>
    /\ evLog = <<>>

PipelineIdle == PipelineInit(0, 0, 0)


ShutterIdle ==
    /\ shStep = "idle"
    /\ shCmd = NoCmd
    /\ shRaw = <<0, 0, 0, 0, 0>>
    /\ shDec = NoCmd

CodecIdle ==
    /\ ShutterIdle
    /\ cStep = "idle"
    /\ cMsg = NoneMsg
    /\ cAddr = 0
    /\ cRaw = NoRaw
    /\ cDec = NoneMsg
    /\ cCan = 0
    /\ cSplit = <<0, 0>>

InitCodec ==
    /\ PipelineIdle
    /\ ShutterIdle
    /\ cDec = NoneMsg
    /\ cCan = 0
    /\ cSplit = <<0, 0>>
    /\ \/ /\ cStep = "msg"
          /\ cMsg \in MessageSet
          /\ cAddr \in AddrVals
          /\ cRaw = NoRaw
       \/ /\ cStep = "raw"
          /\ cMsg = NoneMsg
          /\ cAddr = 0
          /\ cRaw \in RawSet

\* m.to_raw(addr)
Encode ==
    /\ cStep = "msg"
    /\ cRaw' = to_raw(cMsg, cAddr)
    /\ cStep' = "encoded"
    /\ UNCHANGED <<cMsg, cAddr, cDec, cCan, cSplit, shutterVars, pipelineVars>>

\* Message::from_raw(&raw), of an encoded message or of an arriving record
Decode ==
    /\ cStep \in {"encoded", "raw"}
    /\ cDec' = from_raw(cRaw)
    /\ cStep' = IF cStep = "encoded" THEN "roundtrip" ELSE "decoded"
    /\ UNCHANGED <<cMsg, cAddr, cRaw, cCan, cSplit, shutterVars, pipelineVars>>

\* raw.to_can_addr()
ToCanAddr ==
    /\ cStep \in {"encoded", "raw"}
    /\ cCan' = to_can_addr(cRaw)
    /\ cStep' = "can"
    /\ UNCHANGED <<cMsg, cAddr, cRaw, cDec, cSplit, shutterVars, pipelineVars>>

\* MessageRaw::split_can_addr(can_addr)
SplitCanAddr ==
    /\ cStep = "can"
    /\ cSplit' = split_can_addr(cCan)
    /\ cStep' = "split"
    /\ UNCHANGED <<cMsg, cAddr, cRaw, cDec, cCan, shutterVars, pipelineVars>>

NextCodec ==
    \/ Encode
    \/ Decode
    \/ ToCanAddr
    \/ SplitCanAddr

SpecCodec == InitCodec /\ [][NextCodec]_vars

-----------------------------------------------------------------------------
(* The shutter command harness: a Cmd, or 5 bytes, pushed through the      *)
(* functions of shutters.rs.                                               *)

\* every variant of enum Cmd, with its u8 fields drawn from U8Vals
ShutterCmds ==
    Cmds
    \cup {[c |-> "Go", a |-> h, b |-> t] : h \in U8Vals, t \in U8Vals}
    \cup {[c |-> "Tilt", a |-> t] : t \in U8Vals}
    \cup {[c |-> "SetIO", a |-> d, b |-> u] : d \in U8Vals, u \in U8Vals}

\* 5-byte arrays: every command code, and some bytes that are none
ShutterRaws ==
    {<<code, b1, b2, 0, 0>> : code \in (0..9) \cup {16, 17, 255}, b1 \in U8Vals, b2 \in U8Vals}

InitShutter ==
    /\ PipelineIdle
    /\ cStep = "idle"
    /\ cMsg = NoneMsg
    /\ cAddr = 0
    /\ cRaw = NoRaw
    /\ cDec = NoneMsg
    /\ cCan = 0
    /\ cSplit = <<0, 0>>
    /\ shDec = NoCmd
    /\ \/ /\ shStep = "cmd"
          /\ shCmd \in ShutterCmds
          /\ shRaw = <<0, 0, 0, 0, 0>>
       \/ /\ shStep = "raw"
          /\ shCmd = NoCmd
          /\ shRaw \in ShutterRaws

\* cmd.to_raw(&mut raw)
ShutterToRaw ==
    /\ shStep = "cmd"
    /\ shRaw' = Cmd_to_raw(shCmd)
    /\ shStep' = "encoded"
    /\ UNCHANGED <<shCmd, shDec, cStep, cMsg, cAddr, cRaw, cDec, cCan, cSplit, pipelineVars>>

\* Cmd::from_raw(&raw), of the bytes to_raw wrote or of given bytes
ShutterFromRaw ==
    /\ shStep \in {"encoded", "raw"}
    /\ shDec' = Cmd_from_raw(shRaw)
    /\ shStep' = IF shStep = "encoded" THEN "roundtrip" ELSE "decoded"
    /\ UNCHANGED <<shCmd, shRaw, cStep, cMsg, cAddr, cRaw, cDec, cCan, cSplit, pipelineVars>>

NextShutter ==
    \/ ShutterToRaw
    \/ ShutterFromRaw

SpecShutter == InitShutter /\ [][NextShutter]_vars

-----------------------------------------------------------------------------
(* The gateway: every task                                                 *)

\* The state after comm::run and the spawn of the time task.  What the
\* environment will deliver is one of three budgets.
Init ==
    /\ CodecIdle
    /\ \/ PipelineInit(MaxReads, MaxCmds, 0)
       \/ PipelineInit(DeepReads, 0, 0)
       \/ PipelineInit(0, DeepCmds, DeepTicks)

Next ==
    \/ \E chunk \in PipelineChunks : ReaderRead(chunk)
    \/ ReaderReadEof
    \/ ReaderReadErr
    \/ ReaderSend
    \/ RouterInRecv
    \/ RouterInClosed
    \/ RouterInSend
    \/ HaSenderRecv
    \/ \E cmd \in Commands : HaReceiverPublish(cmd)
    \/ HaReceiverPollErr
    \/ HaReceiverSendFails
    \/ RouterOutRecv
    \/ RouterOutSend
    \/ \E now \in Instants : TimeTick(now)
    \/ TimeSend
    \/ WriterRecv
    \/ WriterWriteOk
    \/ WriterWriteErr
    \/ WriterRecvClosed
    \/ MainJoin
    \/ TimeDropped
    \/ WriterDropped

Spec == Init /\ [][Next]_vars

\* While main waits, every task that can take a step eventually takes one,
\* port.write eventually returns and the 60 s sleep eventually elapses.  Nothing obliges
\* the transport to deliver bytes or the collaborator to publish commands.
Fairness ==
    /\ WF_vars(ReaderSend)
    /\ WF_vars(\E now \in Instants : TimeTick(now))
    /\ WF_vars(RouterInRecv)
    /\ WF_vars(RouterInClosed)
    /\ WF_vars(RouterInSend)
    /\ WF_vars(HaSenderRecv)
    /\ WF_vars(RouterOutRecv)
    /\ WF_vars(RouterOutSend)
    /\ WF_vars(TimeSend)
    /\ WF_vars(Alive /\ WriterRecv)
    /\ WF_vars(Alive /\ (WriterWriteOk \/ WriterWriteErr))
    /\ WF_vars(MainJoin)

FairSpec == Spec /\ Fairness

-----------------------------------------------------------------------------
(* The framer alone: reader, with nobody receiving                         *)

InitFramer == CodecIdle /\ PipelineInit(FramerReads, 0, 0)

NextFramer ==
    \/ \E chunk \in FramerChunks : ReaderRead(chunk)
    \/ ReaderReadEof
    \/ ReaderReadErr
    \/ ReaderSend

SpecFramer == InitFramer /\ [][NextFramer]_vars

-----------------------------------------------------------------------------
(* The egress direction: collaborator -> task_mqtt_to_usb -> writer        *)

InitEgress == CodecIdle /\ PipelineInit(0, EgressCmds, 0)

NextEgress ==
    \/ HaReceiverPublish([kind |-> "SetOutput", device |-> 2, output |-> 5, on |-> TRUE])
    \/ RouterOutRecv
    \/ RouterOutSend
    \/ WriterRecv
    \/ WriterWriteOk
    \/ WriterWriteErr
    \/ MainJoin

SpecEgress == InitEgress /\ [][NextEgress]_vars

FairSpecEgress ==
    /\ SpecEgress
    /\ WF_vars(RouterOutRecv)
    /\ WF_vars(RouterOutSend)
    /\ WF_vars(Alive /\ WriterRecv)
    /\ WF_vars(Alive /\ (WriterWriteOk \/ WriterWriteErr))
    /\ WF_vars(MainJoin)

-----------------------------------------------------------------------------
(* task_mqtt_to_usb and writer, fed every variant of Incoming              *)

InitRouterOut == CodecIdle /\ PipelineInit(0, RouterCmds, 0)

NextRouterOut ==
    \/ \E cmd \in Incomings : HaReceiverPublish(cmd)
    \/ RouterOutRecv
    \/ RouterOutSend
    \/ WriterRecv
    \/ WriterWriteOk
    \/ WriterWriteErr
    \/ MainJoin

SpecRouterOut == InitRouterOut /\ [][NextRouterOut]_vars

-----------------------------------------------------------------------------
(* The ingress direction: reader -> task_usb_to_mqtt -> collaborator       *)

InitIngress == CodecIdle /\ PipelineInit(IngressReads, 0, 0)

NextIngress ==
    \/ \E chunk \in IngressChunks : ReaderRead(chunk)
    \/ ReaderReadEof
    \/ ReaderReadErr
    \/ ReaderSend
    \/ RouterInRecv
    \/ RouterInClosed
    \/ RouterInSend
    \/ HaSenderRecv
    \/ MainJoin

SpecIngress == InitIngress /\ [][NextIngress]_vars

FairSpecIngress ==
    /\ SpecIngress
    /\ WF_vars(ReaderSend)
    /\ WF_vars(RouterInRecv)
    /\ WF_vars(RouterInClosed)
    /\ WF_vars(RouterInSend)
    /\ WF_vars(HaSenderRecv)
    /\ WF_vars(MainJoin)

-----------------------------------------------------------------------------
(* The ingress direction, fed records of every unknown type                *)

InitUnknownType == CodecIdle /\ PipelineInit(UnknownTypeReads, 0, 0)

NextUnknownType ==
    \/ \E chunk \in UnknownTypeChunks : ReaderRead(chunk)
    \/ ReaderSend
    \/ RouterInRecv
    \/ RouterInSend
    \/ HaSenderRecv

FairSpecUnknownType ==
    /\ InitUnknownType
    /\ [][NextUnknownType]_vars
    /\ WF_vars(ReaderSend)
    /\ WF_vars(RouterInRecv)
    /\ WF_vars(RouterInSend)
    /\ WF_vars(HaSenderRecv)

-----------------------------------------------------------------------------
(* reader alone, fed frames that arrive in two reads                       *)

InitSplit == CodecIdle /\ PipelineInit(SplitReads, 0, 0)

NextSplit ==
    \/ \E chunk \in SplitChunks : ReaderRead(chunk)
    \/ ReaderSend

SpecSplit == InitSplit /\ [][NextSplit]_vars

-----------------------------------------------------------------------------
(* The ingress direction, fed records that do not decode                   *)

InitUndecodable == CodecIdle /\ PipelineInit(UndecodableReads, 0, 0)

NextUndecodable ==
    \/ \E chunk \in UndecodableChunks : ReaderRead(chunk)
    \/ ReaderReadEof
    \/ ReaderSend
    \/ RouterInRecv
    \/ RouterInClosed
    \/ RouterInSend
    \/ HaSenderRecv
    \/ MainJoin

FairSpecUndecodable ==
    /\ InitUndecodable
    /\ [][NextUndecodable]_vars
    /\ WF_vars(ReaderSend)
    /\ WF_vars(RouterInRecv)
    /\ WF_vars(RouterInClosed)
    /\ WF_vars(RouterInSend)
    /\ WF_vars(HaSenderRecv)
    /\ WF_vars(MainJoin)

-----------------------------------------------------------------------------
(* The gateway from main's startup on: the collaborator's tasks run, main  *)
(* queues its startup events, then the port opens and the routers run      *)

InitStartup ==
    /\ CodecIdle
    /\ mainPc = "initial"
    /\ mainResult = "none"
    /\ cfgLeft \in SUBSET Devices
    /\ stDev = NoDevice
    /\ stComps = {}
    /\ hsPc = "run"
    /\ hrPc = "poll"
    /\ hrErrs = 0
    /\ rdResumed = FALSE
    /\ rdPc = "read"
    /\ buf = ZeroBuf
    /\ rdPending = NoRaw
    /\ readsLeft = StartupReads
    /\ rdLog = <<>>
    /\ lastChunk = <<>>
    /\ gBuf = ZeroBuf
    /\ gOut = [k |-> "rejected"]
    /\ inQ = <<>>
    /\ riPc = "recv"
    /\ riPending = NoneMsg
    /\ haOut = <<>>
    /\ fwd = <<>>
    /\ inRecv = <<>>
    /\ haIn = <<>>
    /\ roPc = "recv"
    /\ roPending = NoRaw
    /\ ttPc = "sleep"
    /\ ttPending = NoRaw
    /\ ttNow = [year |-> 1970, month |-> 1, day |-> 1, hour |-> 0, minute |-> 0,
                second |-> 0]
    /\ outQ = <<>>
    /\ wrPc = "recv"
    /\ wrBuf = <<>>
    /\ cmdsLeft = StartupCmds
    /\ ticksLeft = 0
    /\ outAcc = <<>>
    /\ wrRecv = <<>>
    /\ written = <<>>
    /\ resumed = {}
    /\ roLog = <<>>
    /\ evLog = <<>>

NextStartup ==
    \/ StartupInitial
    \/ InitConfigDevice
    \/ InitConfigSubscribe
    \/ InitConfigDiscovery
    \/ InitConfigDone
    \/ CommRun
    \/ CommRunErr
    \/ HaSenderRecv
    \/ HaSenderPanic
    \/ HaReceiverPublish([kind |-> "SetOutput", device |-> 2, output |-> 5, on |-> TRUE])
    \/ RouterOutRecv
    \/ RouterOutSend
    \/ ReaderRead(FrameOutputOn)
    \/ ReaderSend
    \/ RouterInRecv
    \/ RouterInSend
    \/ MainJoin

SpecStartup == InitStartup /\ [][NextStartup]_vars

\* reader, a spawned task, is polled again whenever its send can complete
FairSpecStartup == SpecStartup /\ WF_vars(ReaderSend)

-----------------------------------------------------------------------------
(* The ingress direction with a collaborator that may stall                *)

InitThrottle == CodecIdle /\ PipelineInit(ThrottleReads, 0, 0)

NextThrottle ==
    \/ ReaderRead(FrameOutputOn)
    \/ ReaderSend
    \/ RouterInRecv
    \/ RouterInSend
    \/ HaSenderRecv

\* reader and task_usb_to_mqtt take the steps they can; nothing obliges the
\* collaborator's sender to take a command off its queue
FairSpecThrottle ==
    /\ InitThrottle
    /\ [][NextThrottle]_vars
    /\ WF_vars(ReaderSend)
    /\ WF_vars(RouterInRecv)
    /\ WF_vars(RouterInSend)

-----------------------------------------------------------------------------
(* writer and reader joined by a loopback: what writer writes, reader reads *)

InitLoopback == CodecIdle /\ PipelineInit(LoopReads, LoopCmds, 0)

NextLoopback ==
    \/ \E cmd \in Commands : HaReceiverPublish(cmd)
    \/ RouterOutRecv
    \/ RouterOutSend
    \/ WriterRecv
    \/ WriterWriteOk
    \/ LoopbackRead
    \/ ReaderSend

SpecLoopback == InitLoopback /\ [][NextLoopback]_vars

-----------------------------------------------------------------------------
(* Claims about the codec                                                  *)

\* the payload length the layout table gives each type code
RequiredLength(t) ==
    CASE t = ERROR -> 4 [] t = INFO -> 6 [] t = OUTPUT_CHANGED -> 2 [] t = SET_OUTPUT -> 2
      [] t = INPUT_CHANGED -> 2 [] t = TRIGGER_INPUT -> 2 [] t = CALL_PROC -> 1
      [] t = REQUEST_STATUS -> 0 [] t = PING -> 2 [] t = PONG -> 2 [] t = STATUS_IO -> 3
      [] t = STATUS -> 8 [] t = TIME_ANNOUNCEMENT -> 8 [] OTHER -> -1

\* C1: round trip: from_raw(m.to_raw(addr)) succeeds and equals m, for every
\* variant of Message, every field value and every addr.
C1_RoundTrip == cStep = "roundtrip" => cDec = cMsg

\* C2 as stated: split_can_addr(to_can_addr) gives the pair (addr, msg_type),
\* in that order, for addr in 0..63 and msg_type in 0..31.
C2_SplitAddrFirst ==
    (cStep = "split" /\ cRaw.addr \in 0..63 /\ cRaw.msg_type \in 0..31)
        => cSplit = <<cRaw.addr, cRaw.msg_type>>

\* C2 amended: split_can_addr(to_can_addr) gives the pair (msg_type, addr):
\* the message type comes first, the device address second.
C2_SplitTypeFirst ==
    (cStep = "split" /\ cRaw.addr \in 0..63 /\ cRaw.msg_type \in 0..31)
        => cSplit = <<cRaw.msg_type, cRaw.addr>>

C2_Witness ==
    /\ cStep = "split"
    /\ cRaw.addr = 5
    /\ cRaw.msg_type = 30
    /\ cCan = 1925
    /\ cSplit = <<30, 5>>

\* C3: length validation: a record of a known type whose length differs from
\* the type's required length never decodes to a message.
C3_LengthValidated ==
    (cStep = "decoded" /\ RequiredLength(cRaw.msg_type) >= 0
        /\ cRaw.length # RequiredLength(cRaw.msg_type))
        => cDec = NoneMsg

\* the bytes of a record that stand for an enumerated field are in range
EnumBytesInRange(raw) ==
    /\ raw.msg_type \in {8, 4} => raw.data[2] <= 2
    /\ raw.msg_type \in {9, 5} => raw.data[2] <= 5
    /\ raw.msg_type = 14 => (raw.data[2] <= 1 /\ raw.data[3] <= 3)

\* C24: decoding fails only for a type code outside the layout table, a
\* length that is not the table's, or an enumerated byte out of range; a
\* record of a type of the table, of the table's length and with its
\* enumerated bytes in range decodes to a message: type 0x10 of length 8 to
\* Status, type 0x12 of length 6 to Info whose arg is payload bytes 2..5,
\* little-endian.
C24_InTableDecodes ==
    cStep = "decoded" =>
        LET t == cRaw.msg_type
            d == cRaw.data
        IN  /\ (RequiredLength(t) = cRaw.length /\ EnumBytesInRange(cRaw)) =>
                  /\ cDec # NoneMsg
                  /\ t = 16 => cDec.kind = "Status"
                  /\ t = 18 => (cDec.kind = "Info"
                                 /\ cDec.code = d[1] + 256 * d[2]
                                 /\ cDec.arg = d[3] + 256 * d[4] + 65536 * d[5]
                                                  + 16777216 * d[6])
            /\ cDec = NoneMsg =>
                  \/ RequiredLength(t) < 0
                  \/ RequiredLength(t) # cRaw.length
                  \/ ~EnumBytesInRange(cRaw)

\* C25: a SetOutput or OutputChanged record with state byte >= 3, a
\* TriggerInput or InputChanged record with trigger byte >= 6 and a
\* StatusIO record with io kind byte >= 2 or state byte >= 4 decode to the
\* failure value, not to a message.
C25_EnumOutOfRangeFails ==
    (cStep = "decoded" /\ cRaw.msg_type \in {8, 4, 9, 5, 14} /\ ~EnumBytesInRange(cRaw))
        => cDec = NoneMsg

\* a StatusIO record of length 3 whose state byte is 4, decoded
C25_Witness ==
    /\ cStep = "decoded"
    /\ cRaw = MessageRaw(2, 14, 3, <<3, 1, 4>>)
    /\ cDec = NoneMsg

\* the layout table: type code, length and payload of each variant it lists
TableKinds ==
    {"Error", "OutputChanged", "InputChanged", "SetOutput", "TriggerInput",
     "CallProcedure", "RequestStatus", "StatusIO", "Status", "TimeAnnouncement", "Info",
     "Pong", "Ping"}

TableType(kind) ==
    CASE kind = "Error" -> 2 [] kind = "OutputChanged" -> 4 [] kind = "InputChanged" -> 5
      [] kind = "SetOutput" -> 8 [] kind = "TriggerInput" -> 9
      [] kind = "CallProcedure" -> 10 [] kind = "RequestStatus" -> 13
      [] kind = "StatusIO" -> 14 [] kind = "Status" -> 16
      [] kind = "TimeAnnouncement" -> 17 [] kind = "Info" -> 18 [] kind = "Pong" -> 29
      [] kind = "Ping" -> 30

LittleEndian(v, n) == [i \in 1..n |-> (v \div (256 ^ (i - 1))) % 256]

StateByte(s) == CASE s = "Off" -> 0 [] s = "On" -> 1 [] s = "Toggle" -> 2

IOStateByte(s) == CASE s = "Off" -> 0 [] s = "On" -> 1 [] s = "Error" -> 2 [] s = "Unknown" -> 3

TriggerByte(t) ==
    CASE t = "ShortClick" -> 0 [] t = "LongClick" -> 1 [] t = "Activated" -> 2
      [] t = "Deactivated" -> 3 [] t = "LongActivated" -> 4 [] t = "LongDeactivated" -> 5

TablePayload(m) ==
    CASE m.kind = "Error" -> LittleEndian(m.code, 4)
      [] m.kind = "Info" -> LittleEndian(m.code, 2) \o LittleEndian(m.arg, 4)
      [] m.kind \in {"OutputChanged", "SetOutput"} -> <<m.output, StateByte(m.state)>>
      [] m.kind \in {"InputChanged", "TriggerInput"} -> <<m.input, TriggerByte(m.trigger)>>
      [] m.kind = "CallProcedure" -> <<m.proc_id>>
      [] m.kind = "RequestStatus" -> <<>>
      [] m.kind \in {"Ping", "Pong"} -> LittleEndian(m.body, 2)
      [] m.kind = "StatusIO" ->
           <<m.io.idx, IF m.io.t = "Input" THEN 0 ELSE 1, IOStateByte(m.state)>>
      [] m.kind = "Status" ->
           LittleEndian(m.uptime, 4) \o LittleEndian(m.errors, 2)
               \o LittleEndian(m.warnings, 2)
      [] m.kind = "TimeAnnouncement" ->
           LittleEndian(m.year, 2)
               \o <<m.month, m.day, m.hour, m.minute, m.second, m.day_of_week>>

\* C26: to_raw(addr) of every variant returns a record with the given addr
\* and with zero in every payload byte past its length; for the variants of
\* the layout table the record has the table's type code, the table's
\* length, and the fields in the table's order, multi-byte fields
\* little-endian.
C26_EncodeFollowsTable ==
    cStep = "encoded" =>
        /\ cRaw.addr = cAddr
        /\ cRaw.length \in 0..8
        /\ \A i \in 1..8 : i > cRaw.length => cRaw.data[i] = 0
        /\ cMsg.kind \in TableKinds =>
              /\ cRaw.msg_type = TableType(cMsg.kind)
              /\ cRaw.length = RequiredLength(TableType(cMsg.kind))
              /\ cRaw.length = Len(TablePayload(cMsg))
              /\ \A i \in 1..cRaw.length : cRaw.data[i] = TablePayload(cMsg)[i]

\* Status{uptime 0x12345678, errors 0x0102, warnings 0xFFFF} encoded for
\* address 200
C26_Witness ==
    /\ cStep = "encoded"
    /\ cAddr = 200
    /\ cMsg = [kind |-> "Status", uptime |-> 305419896, errors |-> 258, warnings |-> 65535]
    /\ cRaw = [addr |-> 200, msg_type |-> 16, length |-> 8,
               data |-> <<120, 86, 52, 18, 2, 1, 255, 255>>]

-----------------------------------------------------------------------------
(* Claims about the pipeline                                               *)

Last(q) == q[Len(q)]

InRange(raw) == raw.length <= 8 /\ raw.addr <= 63 /\ raw.msg_type <= 31

\* C4: every record in the ingress channel or the egress channel has
\* length <= 8, addr <= 63 and msg_type <= 31.
C4_ChannelRecordsInRange ==
    /\ \A i \in 1..Len(inQ) : InRange(inQ[i])
    /\ \A i \in 1..Len(outQ) : InRange(outQ[i].raw)

\* C5: reader ends only on a zero-length read or on a closed ingress
\* channel; no chunk of bytes makes it crash.
C5_ReaderSurvivesAnyChunk ==
    ReaderEnded => (rdPc = "err" /\ (Last(rdLog).k = "eof" \/ riPc = "done"))

\* C6: once one of reader, writer, task_usb_to_mqtt, task_mqtt_to_usb has
\* ended, the process eventually exits, whatever the transport and the
\* collaborator do or do not deliver.
C6_FailurePropagates ==
    [](("done" \in {riPc, roPc} \/ ReaderEnded \/ WriterEnded) => <>(mainPc = "exited"))

\* the frame of the time announcement of 2024-03-01 10:15:30, a Friday
FridayPayload == <<232, 7, 3, 1, 10, 15, 30, 5>>

\* C7: the record the time task pushes is addressed to the broadcast address
\* 63, has msg_type 0x11, length 8 and the payload [year_lo, year_hi, month,
\* day, hour, minute, second, day_of_week], day_of_week counted from Monday = 1.
C7_TimeBroadcast ==
    (outAcc # <<>> /\ Last(outAcc).src = "time" /\ ttPc = "sleep") =>
        LET raw == Last(outAcc).raw
        IN  /\ raw.addr = BROADCAST_ADDRESS
            /\ raw.msg_type = 17
            /\ raw.length = 8
            /\ raw.data[3] = ttNow.month /\ raw.data[4] = ttNow.day
            /\ raw.data[5] = ttNow.hour /\ raw.data[6] = ttNow.minute
            /\ raw.data[7] = ttNow.second
            /\ raw.data[1] + 256 * raw.data[2] = ttNow.year
            /\ raw.data[8] \in 1..7
            /\ (ttNow.year = 2024 /\ ttNow.month = 3 /\ ttNow.day = 1)
                   => raw.data = FridayPayload

\* a chunk holding one whole well-formed frame
ValidFrame(c) ==
    /\ Len(c) >= PREAMBULE_LENGTH + CAN_MESSAGE_LENGTH
    /\ c[1] = 33
    /\ c[2] = 124
    /\ c[5] <= 8

\* the record a well-formed frame stands for
FrameRecord(c) ==
    [addr |-> c[3], msg_type |-> c[4], length |-> c[5],
     data |-> [i \in 1..8 |-> IF i <= c[5] THEN c[5 + i] ELSE 0]]

\* how many of the reads so far yielded a record
RECURSIVE Records(_)
Records(log) ==
    IF log = <<>> THEN 0
    ELSE (IF Last(log).k = "record" THEN 1 ELSE 0) + Records(SubSeq(log, 1, Len(log) - 1))

\* C8: a chunk whose first byte is not 0x21 yields no record, and a later
\* chunk is processed as if the rejected chunk had never been read; a
\* well-formed 13-byte frame yields exactly one record, with the frame's
\* addr, msg_type, length and payload, also right after a rejected chunk.
C8_PreambleRecovery ==
    /\ Len(fwd) + (IF rdPc \in {"send", "wait"} THEN 1 ELSE 0) = Records(rdLog)
    /\ lastChunk # <<>> =>
        /\ lastChunk[1] # 33 => (Last(rdLog).k = "rejected" /\ rdPc = "read")
        /\ lastChunk[1] = 33 => Last(rdLog) = gOut
        /\ ValidFrame(lastChunk) =>
              /\ Last(rdLog) = [k |-> "record", raw |-> FrameRecord(lastChunk)]
              /\ rdPc \in {"send", "wait"} => rdPending = FrameRecord(lastChunk)
              /\ rdPc = "read" => Last(fwd) = FrameRecord(lastChunk)

C8_Witness ==
    /\ Len(rdLog) = 2
    /\ rdLog[1].k = "rejected"
    /\ lastChunk = FrameOutputOn
    /\ rdPc = "read"
    /\ fwd = <<MessageRaw(2, 4, 2, <<5, 1>>)>>

ExpectedFrame(raw) ==
    <<33, 124, raw.addr, raw.msg_type, raw.length>> \o [i \in 1..8 |-> raw.data[i]]

\* C10: per direction, first in first out: what task_usb_to_mqtt has
\* received, followed by what the ingress channel holds, is what reader
\* forwarded; what writer has received, followed by what the egress channel
\* holds, is what the channel accepted; and the frames written are the
\* frames of the records received, in that order.
C10_Fifo ==
    /\ fwd = inRecv \o inQ
    /\ ~WriterEnded => outAcc = wrRecv \o outQ
    /\ Len(wrRecv) <= Len(outAcc)
    /\ wrRecv = SubSeq(outAcc, 1, Len(wrRecv))
    /\ Len(wrRecv) - Len(written) \in {0, 1}
    /\ wrPc = "recv" => Len(written) = Len(wrRecv)
    /\ \A i \in 1..Len(written) : written[i] = ExpectedFrame(wrRecv[i].raw)

C10_Witness ==
    /\ Len(written) = 4
    /\ wrRecv[1].src = "router"
    /\ wrRecv[2].src = "time"
    /\ wrRecv[3].src = "router"
    /\ wrRecv[4].src = "time"
    /\ wrRecv[1].raw # wrRecv[3].raw
    /\ wrRecv[2].raw # wrRecv[4].raw
    /\ written[3] = <<33, 124, 200, 8, 2, 255, 0, 0, 0, 0, 0, 0, 0>>

-----------------------------------------------------------------------------
(* Claims about the routers                                                *)

\* the records of producer p that the egress channel accepted, in order
AcceptedFrom(p) ==
    LET acc == SelectSeq(outAcc, LAMBDA e : e.src = p)
    IN  [i \in 1..Len(acc) |-> acc[i].raw]

\* the SetOutput commands task_mqtt_to_usb has received, in order
SetOutputsReceived == SelectSeq(roLog, LAMBDA c : c.kind = "SetOutput")

\* the record a SetOutput command stands for
SetOutputRecord(cmd) ==
    [addr |-> cmd.device, msg_type |-> 8, length |-> 2,
     data |-> <<cmd.output, IF cmd.on THEN 1 ELSE 0, 0, 0, 0, 0, 0, 0>>]

\* C11: the records task_mqtt_to_usb has pushed onto the egress channel,
\* followed by the one it is pushing, are the records of the SetOutput
\* commands it has received, one each and in that order: addr = device,
\* msg_type 0x08, length 2, payload [output, 1 if on else 0].  A RawTest
\* event adds no record.  Only a writer that has ended keeps the record
\* being pushed off the channel.
C11_SetOutputRecords ==
    /\ AcceptedFrom("router") \o (IF roPc = "recv" THEN <<>> ELSE <<roPending>>)
           = [i \in 1..Len(SetOutputsReceived) |-> SetOutputRecord(SetOutputsReceived[i])]
    /\ roPc = "done" => WriterEnded

C11_Witness ==
    /\ Len(roLog) = 3
    /\ roLog[1] = [kind |-> "SetOutput", device |-> 2, output |-> 5, on |-> TRUE]
    /\ roLog[2].kind = "RawTest"
    /\ roLog[3] = [kind |-> "SetOutput", device |-> 200, output |-> 255, on |-> FALSE]
    /\ roPc = "recv"
    /\ AcceptedFrom("router")
           = <<[addr |-> 2, msg_type |-> 8, length |-> 2, data |-> <<5, 1, 0, 0, 0, 0, 0, 0>>],
               [addr |-> 200, msg_type |-> 8, length |-> 2,
                data |-> <<255, 0, 0, 0, 0, 0, 0, 0>>]>>

\* a record that decodes to OutputChanged with state On or Off
Forwardable(raw) == raw.msg_type = 4 /\ raw.length = 2 /\ raw.data[2] \in {0, 1}

\* the event of a forwardable record
ForwardedEvent(raw) ==
    [kind |-> "OutputChanged", device |-> raw.addr, output |-> raw.data[1],
     on |-> IF raw.data[2] = 1 THEN "true" ELSE "false"]

\* the forwardable records task_usb_to_mqtt has received, in order
ForwardablesReceived == SelectSeq(inRecv, Forwardable)

\* C12: the events task_usb_to_mqtt has sent to the collaborator, followed
\* by the one it is sending, are the OutputChanged{device = record addr,
\* output, on} events of the received records that decode to OutputChanged
\* with state On or Off, one each; a Toggle state, an Info record and every
\* other variant add no event, and the loop goes on with the next record:
\* with the collaborator's queue served, it ends only on a closed and empty
\* ingress channel.
C12_ForwardOnOffOnly ==
    /\ evLog \o (IF riPc \in {"send", "wait"} THEN <<riPending>> ELSE <<>>)
           = [i \in 1..Len(ForwardablesReceived) |->
                 ForwardedEvent(ForwardablesReceived[i])]
    /\ riPc = "done" => (ReaderEnded /\ inQ = <<>>)

C12_Witness ==
    /\ Len(inRecv) = 3
    /\ inRecv[1].msg_type = 4 /\ inRecv[1].data[2] = 2
    /\ inRecv[2].msg_type = 18
    /\ inRecv[3].msg_type = 4 /\ inRecv[3].data[2] = 1
    /\ riPc = "recv"
    /\ evLog = <<[kind |-> "OutputChanged", device |-> 2, output |-> 5, on |-> "true"]>>

\* the type codes outside the table 0x02, 0x04, 0x05, 0x08, 0x09, 0x0A, 0x0B,
\* 0x0D, 0x0E, 0x10, 0x11, 0x12, 0x1D, 0x1E
OutsideTable(t) == t \in (0..31) \ {2, 4, 5, 8, 9, 10, 11, 13, 14, 16, 17, 18, 29, 30}

\* C13: a record whose msg_type is a 5-bit code outside the known table
\* decodes to the failure value; task_usb_to_mqtt sends no event for it,
\* does not end, and goes on to receive every record forwarded after it.
C13_UnknownTypeSkipped ==
    /\ [](\A i \in 1..Len(inRecv) :
              OutsideTable(inRecv[i].msg_type) => from_raw(inRecv[i]) = NoneMsg)
    /\ []((inRecv # <<>> /\ OutsideTable(Last(inRecv).msg_type)) => riPc = "recv")
    /\ [](Len(evLog) <= Cardinality({i \in 1..Len(inRecv) : ~OutsideTable(inRecv[i].msg_type)}))
    /\ \A n \in 1..(UnknownTypeReads + 1) : (Len(fwd) >= n) ~> (Len(inRecv) >= n)

C13_Witness ==
    /\ Len(inRecv) = 2
    /\ inRecv[1].msg_type = 31
    /\ inRecv[2] = MessageRaw(2, 4, 2, <<5, 1>>)
    /\ evLog = <<[kind |-> "OutputChanged", device |-> 2, output |-> 5, on |-> "true"]>>

-----------------------------------------------------------------------------
(* Claims about the ends of the tasks                                      *)

\* C14: when reader or writer has ended with an error and the process has
\* ended, the result of the process is a failure.
C14_FailureResult ==
    (mainPc = "exited" /\ "err" \in {rdPc, wrPc}) => mainResult = "Err"

\* C15: a zero-length read ends reader with an error; a reader that has
\* ended forwards no further record; task_usb_to_mqtt observes the closed
\* ingress channel, and only once it has received every record forwarded.
C15_EofClosesIngress ==
    /\ []((rdLog # <<>> /\ Last(rdLog).k = "eof") => rdPc = "err")
    /\ [][rdPc = "err" => (rdPc' = "err" /\ fwd' = fwd /\ rdLog' = rdLog)]_vars
    /\ [](riPc = "done" => (rdPc = "err" /\ inQ = <<>> /\ inRecv = fwd))
    /\ (rdPc = "err") ~> (riPc = "done")

C15_Witness ==
    /\ Len(rdLog) = 3
    /\ rdLog[3].k = "eof"
    /\ Len(fwd) = 2
    /\ inRecv = fwd
    /\ riPc = "done"

\* C16: a read that returns an I/O error forwards no record, leaves the
\* ingress channel as it was and leaves reader reading; reader ends only on
\* a zero-length read or a closed channel; and a well-formed frame read
\* after read errors is forwarded as its record.
C16_ReadErrorSurvived ==
    /\ [][(rdLog' # rdLog /\ Last(rdLog').k = "ioerr") =>
              /\ rdPc = "read" /\ rdPc' = "read"
              /\ inQ' = inQ /\ fwd' = fwd /\ buf' = buf
              /\ \A chunk \in IngressChunks :
                    LET out == reader_chunk(read_into(buf', chunk), Len(chunk))
                    IN  out = [k |-> "record", raw |-> FrameRecord(chunk)]]_vars
    /\ [](rdPc = "err" => (Last(rdLog).k = "eof" \/ riPc = "done"))
    /\ []((ValidFrame(lastChunk) /\ rdPc = "read") => Last(fwd) = FrameRecord(lastChunk))

C16_Witness ==
    /\ Len(rdLog) = 3
    /\ rdLog[1].k = "ioerr"
    /\ rdLog[2].k = "ioerr"
    /\ rdLog[3].k = "record"
    /\ fwd = <<MessageRaw(2, 4, 2, <<5, 1>>)>>
    /\ inRecv = fwd

\* C17: a write that returns an I/O error ends writer with an error; from
\* then on writer receives no record and writes nothing, the egress channel
\* accepts nothing, and a send on it, begun before or after, fails.
C17_WriteErrorEndsWriter ==
    /\ [][(Alive /\ wrPc = "write" /\ wrPc' # "write" /\ written' = written)
             => wrPc' = "err"]_vars
    /\ [][wrPc = "err" =>
             /\ wrPc' = "err"
             /\ wrRecv' = wrRecv /\ written' = written
             /\ outAcc' = outAcc /\ outQ' = outQ /\ outQ = <<>>
             /\ (roPc \in {"send", "wait"} /\ roPc' # roPc) => roPc' = "done"
             /\ (ttPc \in {"send", "wait"} /\ ttPc' # ttPc) => ttPc' \in {"done", "dropped"}]_vars

C17_Witness ==
    /\ wrPc = "err"
    /\ Len(wrRecv) = 1
    /\ written = <<>>
    /\ roPc = "done"
    /\ ttPc = "done"
    /\ Len(roLog) = 2
    /\ Len(outAcc) = 1

\* C18: writer returns Ok only when every sender is dropped and the egress
\* channel is empty; and when writer has ended without a write error, every
\* record the channel accepted has been written.
C18_DrainedBeforeEnd ==
    /\ wrPc = "ok" => (SendersDropped /\ outQ = <<>>)
    /\ (WriterEnded /\ wrPc # "err") => Len(written) = Len(outAcc)

\* the 13 bytes of a record of length L: the header, L payload bytes, zeros
PaddedFrame(raw) ==
    <<33, 124, raw.addr, raw.msg_type, raw.length>>
        \o [i \in 1..8 |-> IF i <= raw.length THEN raw.data[i] ELSE 0]

C20_FramerAcceptance ==
    lastChunk # <<>> =>
        LET accepted == Len(lastChunk) >= 13 /\ lastChunk[1] = 33 /\ lastChunk[2] = 124
        IN  /\ accepted <=> Last(rdLog).k = "record"
            /\ accepted =>
                  /\ Last(rdLog).raw.addr = lastChunk[3]
                  /\ Last(rdLog).raw.msg_type = lastChunk[4]
                  /\ Last(rdLog).raw.length = lastChunk[5]
                  /\ \A i \in 1..lastChunk[5] : Last(rdLog).raw.data[i] = lastChunk[5 + i]
            /\ ~accepted => rdPc = "read"
            /\ Len(fwd) + (IF rdPc \in {"send", "wait"} THEN 1 ELSE 0) = Records(rdLog)

-----------------------------------------------------------------------------
(* Claims about frames split across reads                                  *)

\* C21: a read of fewer than 13 bytes yields no record, whatever the reads
\* before it left in the buffer, and reader goes on to the next read; a
\* record comes from one read of a whole frame and carries that read's
\* bytes only; so a frame delivered in two reads yields no record.
C21_NoReassembly ==
    /\ lastChunk # <<>> =>
          /\ Len(lastChunk) < 13 => (Last(rdLog).k \in {"rejected", "skip"} /\ rdPc = "read")
          /\ Last(rdLog).k = "record" =>
                (ValidFrame(lastChunk) /\ Last(rdLog).raw = FrameRecord(lastChunk))
    /\ Len(fwd) <= Records(rdLog)
    /\ \A i \in 1..Len(fwd) : fwd[i] = FrameRecord(FrameOutputOn)

\* the first 12 bytes of a frame, then its last byte, 0x21: the second read
\* finds both sync bytes in the buffer and yields no record
C21_Witness ==
    /\ Len(rdLog) = 2
    /\ lastChunk = SplitTail(FrameTime, 12)
    /\ buf = read_into(ZeroBuf, SplitHead(FrameTime, 12))
    /\ buf[2] = 124
    /\ rdLog[1].k = "skip"
    /\ rdLog[2].k = "skip"
    /\ rdPc = "read"
    /\ fwd = <<>>

-----------------------------------------------------------------------------
(* Claims about records that do not decode                                 *)

\* task_usb_to_mqtt receives an undecodable record
ReceivesUndecodable ==
    /\ inRecv' # inRecv
    /\ from_raw(Head(inQ)) = NoneMsg

\* C22: when task_usb_to_mqtt receives a record that does not decode, it
\* sends no event for it and stays in its loop, and no other task and not
\* main ends in that step; every record forwarded after it is received in
\* turn; the task ends only on a closed ingress channel, and main returns
\* only after reader has met the end of the stream.
C22_UndecodableIgnored ==
    /\ [][ReceivesUndecodable =>
             /\ riPc' = "recv"
             /\ UNCHANGED <<evLog, haOut, riPending, mainVars, readerVars, egressVars>>]_vars
    /\ [](Len(evLog) + (IF riPc \in {"send", "wait"} THEN 1 ELSE 0)
             = Len(ForwardablesReceived))
    /\ [](riPc = "done" => rdPc = "err" /\ Last(rdLog).k = "eof")
    /\ [](mainPc = "join" \/ riPc = "done")
    /\ \A n \in 1..UndecodableReads : (Len(fwd) >= n) ~> (Len(inRecv) >= n)

\* an undecodable record was received, then a forwardable one, whose event
\* is the only one sent
C22_Witness ==
    /\ Len(inRecv) = 2
    /\ from_raw(inRecv[1]) = NoneMsg
    /\ inRecv[2] = FrameRecord(FrameOutputOn)
    /\ evLog = <<ForwardedEvent(inRecv[2])>>
    /\ riPc = "recv"
    /\ mainPc = "join"

-----------------------------------------------------------------------------
(* Claims about the collaborator's tasks                                   *)

\* C23: once event_loop.poll() has reported a failure of the broker
\* connection, the receiver task has ended; the incoming queue is then
\* closed, and task_mqtt_to_usb leaves its loop when ha.recv() returns None.
C23_BrokerFailureEndsReceiver == hrErrs > 0 => hrPc = "done"

\* reader's send completes or fails
ReaderSendReturns == rdPc \in {"send", "wait"} /\ rdPc' \notin {"send", "wait"}

\* C27: once task_usb_to_mqtt has left its loop and dropped the receiving
\* end of the ingress channel, reader's next send fails: nothing is
\* forwarded and reader ends with an error; while main has not returned
\* that send does return; and a reader that has ended reads no more.
C27_ClosedIngressEndsReader ==
    /\ [][(riPc = "done" /\ ReaderSendReturns) =>
             (rdPc' = "err" /\ UNCHANGED <<fwd, inQ>>)]_vars
    /\ [][rdPc = "err" => (rdPc' = "err" /\ UNCHANGED <<rdLog, readsLeft, buf>>)]_vars
    /\ [](rdPc = "err" => riPc = "done")
    /\ (riPc = "done" /\ rdPc \in {"send", "wait"}) ~> (rdPc = "err" \/ mainPc = "exited")

\* the sender task panicked, task_usb_to_mqtt's send failed and it left its
\* loop with main still waiting; reader's send of its second record failed,
\* and reader has ended with a read still on offer
C27_Witness ==
    /\ hsPc = "panic"
    /\ riPc = "done"
    /\ rdPc = "err"
    /\ mainPc = "join"
    /\ Len(rdLog) = 2
    /\ Len(fwd) = 1
    /\ rdPending = FrameRecord(FrameOutputOn)
    /\ readsLeft > 0

\* reader holds a record it has not yet pushed
ReaderHolds == rdPc \in {"send", "wait"}

\* C28: the ingress channel never holds more than 15 records; reader
\* suspends only on a full channel; no record is dropped: every record read
\* is forwarded or still held, and what was forwarded is what
\* task_usb_to_mqtt received followed by what the channel holds; reader
\* reads nothing and keeps its record while it holds one; and once
\* task_usb_to_mqtt has received a record, making room, the suspended send
\* completes.
C28_IngressThrottling ==
    /\ [](Len(inQ) <= 15)
    /\ [][(rdPc = "send" /\ rdPc' = "wait") => Len(inQ) = 15]_vars
    /\ [](Records(rdLog) = Len(fwd) + (IF ReaderHolds THEN 1 ELSE 0))
    /\ [](fwd = inRecv \o inQ)
    /\ [][ReaderHolds => UNCHANGED <<rdLog, readsLeft, rdPending>>]_vars
    /\ [][(ReaderHolds /\ rdPc' = "read") => fwd' = Append(fwd, rdPending)]_vars
    /\ (rdPc = "wait" /\ Len(inQ) < 15) ~> (rdPc = "read")

\* the collaborator's queue holds 10 events, task_usb_to_mqtt is suspended
\* on an 11th, the channel is full again, and reader's suspended send has
\* completed: all 27 records read are forwarded
C28_Witness ==
    /\ rdResumed
    /\ Len(haOut) = 10
    /\ riPc = "wait"
    /\ Len(inQ) = 15
    /\ rdPc = "read"
    /\ Len(fwd) = 27
    /\ Records(rdLog) = 27

-----------------------------------------------------------------------------
(* Claims about main's startup                                             *)

\* main has not yet opened the port
InStartup == mainPc \in {"initial", "config", "subscribe", "run"}

\* the command topics of a configured device: one per output
CommandTopics(d) == {<<"smartenough", d.addr, "switch", o.id, "set">> : o \in d.outputs}

\* the subscription requests queued directly before event i
SubscribesBefore(i) ==
    LET j == CHOOSE j \in 1..(i - 1) :
                 /\ evLog[j].kind # "Subscribe"
                 /\ \A k \in (j + 1)..(i - 1) : evLog[k].kind = "Subscribe"
    IN  SubSeq(evLog, j + 1, i - 1)

\* C29: the startup notice is the first event queued and the only one of
\* its kind; each discovery event is preceded by the subscription requests
\* of its device, one per command topic of the device's components, and no
\* device is announced twice; when the port is opened every configured
\* device has been announced; until then no record is read and no
\* collaborator command is processed; and a startup that failed to queue
\* an event has ended with an error before the port was opened.
C29_StartupSequence ==
    /\ evLog # <<>> => evLog[1].kind = "Initial"
    /\ \A i \in 2..Len(evLog) : evLog[i].kind # "Initial"
    /\ \A i \in 2..Len(evLog) :
          evLog[i].kind = "DiscoveryDevice" =>
              LET d == CHOOSE d \in Devices : evLog[i].device = <<"gate", d.addr>>
                  subs == SubscribesBefore(i)
              IN  /\ Len(subs) = Cardinality(CommandTopics(d))
                  /\ {subs[k].topic : k \in 1..Len(subs)} = CommandTopics(d)
    /\ \A i, j \in 2..Len(evLog) :
          (evLog[i].kind = "DiscoveryDevice" /\ evLog[j].kind = "DiscoveryDevice"
              /\ evLog[i].device = evLog[j].device) => i = j
    /\ mainPc \in {"run", "join"} => (cfgLeft = {} /\ stDev = NoDevice)
    /\ InStartup => (rdLog = <<>> /\ inRecv = <<>> /\ roLog = <<>>)
    /\ mainResult \in {"Err", "panic"} => (mainPc = "exited" /\ rdLog = <<>>)

-----------------------------------------------------------------------------
(* Claims about writer and reader together                                 *)

\* records of every variant, for two addresses
LoopRecords == {to_raw(m, a) : m \in MessageSet, a \in {2, 200}}

\* equal in addr, msg_type, length and the first length payload bytes
SameRecord(a, b) ==
    /\ a.addr = b.addr
    /\ a.msg_type = b.msg_type
    /\ a.length = b.length
    /\ \A i \in 1..b.length : a.data[i] = b.data[i]

\* C30: the frame writer produces for a record of length <= 8, read by
\* reader as one chunk, yields that record: the same addr, msg_type, length
\* and first length payload bytes, whatever reader's buffer held before.
\* This holds of the frames writer has written and reader has read back,
\* whose records reader forwards, and of the frame of every encoded message.
C30_WireRoundTrip ==
    /\ \A i \in 1..Len(written) :
          (wrRecv[i].raw.length <= 8 /\ lastChunk = written[i]) =>
              /\ Last(rdLog).k = "record"
              /\ SameRecord(Last(rdLog).raw, wrRecv[i].raw)
              /\ ReaderHolds => rdPending = Last(rdLog).raw
              /\ rdPc = "read" => Last(fwd) = Last(rdLog).raw
    /\ Len(fwd) + (IF ReaderHolds THEN 1 ELSE 0) = Len(rdLog)
    /\ \A r \in LoopRecords :
          LET out == reader_chunk(read_into(buf, writer_frame(r)), Len(writer_frame(r)))
          IN  r.length <= 8 => (out.k = "record" /\ SameRecord(out.raw, r))

\* reader has forwarded the SetOutput records for device 2 and for device
\* 200 that writer wrote, the second frame read first
C30_Witness ==
    /\ Len(fwd) = 2
    /\ Len(written) = 2
    /\ wrRecv[1].raw.addr = 2
    /\ wrRecv[2].raw.addr = 200
    /\ fwd = <<wrRecv[2].raw, wrRecv[1].raw>>
    /\ buf = read_into(ZeroBuf, written[1])

-----------------------------------------------------------------------------
(* Claims about reader's buffer                                            *)

\* C31: a read leaves the bytes of buf past its chunk as they were: buf is
\* reused and not cleared.  Yet a read yields a record only if its chunk
\* holds at least 13 bytes, and the record, which reader then holds or has
\* forwarded, is the one its chunk alone stands for; a shorter chunk, such
\* as a single byte read onto a buffer whose second byte is left from an
\* earlier frame, yields none.  So every forwarded record is the record of
\* one whole chunk.
C31_NoStaleBytes ==
    /\ [][\A i \in 1..MaxChunk : i > Len(lastChunk') => buf'[i] = buf[i]]_vars
    /\ [](lastChunk # <<>> =>
            /\ Len(lastChunk) < 13 => (Last(rdLog).k # "record" /\ ~ReaderHolds)
            /\ Last(rdLog).k = "record" =>
                  /\ Last(rdLog).raw = FrameRecord(lastChunk)
                  /\ ReaderHolds => rdPending = FrameRecord(lastChunk)
                  /\ rdPc = "read" => Last(fwd) = FrameRecord(lastChunk))
    /\ [](\A i \in 1..Len(fwd) :
              \E c \in FramerChunks : Len(c) >= 13 /\ fwd[i] = FrameRecord(c))

\* a 14-byte chunk was read, then a 13-byte frame: byte 14 of buf is left
\* from the first read, and the second record forwarded is the frame's
C31_Witness ==
    /\ Len(rdLog) = 2
    /\ lastChunk = FrameOutputOn
    /\ buf[14] = 33
    /\ Len(fwd) = 2
    /\ fwd[1] = FrameRecord(ChunkOver)
    /\ fwd[2] = FrameRecord(FrameOutputOn)

-----------------------------------------------------------------------------
(* Claims about what travels on the egress channel                         *)

\* a record of the kind task_mqtt_to_usb is to produce
IsSetOutput(raw) == raw.msg_type = 8 /\ raw.length = 2 /\ raw.data[2] \in {0, 1}

\* a record of the kind the time task is to produce
IsTimeAnnouncement(raw) == raw.msg_type = 17 /\ raw.length = 8

\* C32: every record the egress channel has accepted is a SetOutput record
\* with state byte 0 or 1, pushed by task_mqtt_to_usb for a command it has
\* received, or a TimeAnnouncement record of length 8 pushed by the time
\* task; only these two tasks push, so no step of reader or of
\* task_usb_to_mqtt adds a record, and no record that reader forwarded is
\* among those accepted.
C32_EgressOrigins ==
    /\ [](\A i \in 1..Len(outAcc) :
              \/ /\ outAcc[i].src = "router"
                 /\ IsSetOutput(outAcc[i].raw)
                 /\ \E k \in 1..Len(roLog) :
                       /\ roLog[k].kind = "SetOutput"
                       /\ outAcc[i].raw = SetOutputRecord(roLog[k])
              \/ /\ outAcc[i].src = "time"
                 /\ IsTimeAnnouncement(outAcc[i].raw))
    /\ [](\A i \in 1..Len(outAcc) : \A k \in 1..Len(fwd) : outAcc[i].raw # fwd[k])
    /\ [](\A i \in 1..Len(outQ) : \E k \in 1..Len(outAcc) : outQ[i] = outAcc[k])
    /\ [][outAcc' # outAcc =>
             /\ \/ roPc \in {"send", "wait"} /\ roPc' = "recv"
                \/ ttPc \in {"send", "wait"} /\ ttPc' = "sleep"
             /\ UNCHANGED <<readerVars, ingressVars>>]_vars

\* task_usb_to_mqtt has received a record from the transport, and the one
\* record the egress channel has accepted, now written, is the SetOutput
\* record of the command received
C32_Witness ==
    /\ Len(inRecv) = 1
    /\ Len(roLog) = 1
    /\ Len(outAcc) = 1
    /\ outAcc[1].src = "router"
    /\ outAcc[1].raw = SetOutputRecord(roLog[1])
    /\ Len(written) = 1

-----------------------------------------------------------------------------
(* Claims about the joint wait in main                                     *)

\* one of the two router loops has ended while main waits in try_join!
RouterLoopEnded == Alive /\ "done" \in {riPc, roPc}

\* C33: once either router loop has ended, main's joint wait can return at
\* once, whatever the other loop is doing, and it eventually does: the
\* process exits.  Main leaves the joint wait only when a router loop has
\* ended.
C33_ExitAtFirstLoop ==
    /\ [](RouterLoopEnded => ENABLED MainJoin)
    /\ RouterLoopEnded ~> mainPc = "exited"
    /\ [][mainPc = "join" /\ mainPc' = "exited" => "done" \in {riPc, roPc}]_vars

\* main has returned after task_usb_to_mqtt ended, while task_mqtt_to_usb
\* was still waiting for a command
C33_Witness ==
    /\ mainPc = "exited"
    /\ riPc = "done"
    /\ roPc = "recv"

-----------------------------------------------------------------------------
(* Claims about shutters::Cmd                                              *)

\* C34: for every Cmd value c, Cmd::from_raw of the 5 bytes c.to_raw wrote
\* returns Some(c).
C34_ShutterRoundTrip == shStep = "roundtrip" => shDec = shCmd

====
